---- MODULE Spec2Model ----
(***************************************************************************)
(* A model of the HandlerRenderCreateJS component                           *)
(* (src/src/components/HandlerRenderCreateJS.js): one owner entity with a   *)
(* list of attached components, some of which are render handlers.  Each    *)
(* handler owns a stage (a list of display nodes), a camera rectangle, a    *)
(* pause value, a reusable render message and a pending extra-content map.  *)
(*                                                                         *)
(* Events are dispatched synchronously: one owner tick is delivered to      *)
(* every handler before any other event is handled.  The order in which the *)
(* container delivers one tick to the components is not fixed by the        *)
(* handler's code, so every order is explored.                              *)
(*                                                                         *)
(* The module also holds the handler's pointer translator, the owner's      *)
(* broadcast to its child entities, and RandomSet (src/src/RandomSet.js).   *)
(***************************************************************************)
EXTENDS Integers, Sequences, FiniteSets, TLC

(***************************************************************************)
(* Bounds of the model.                                                     *)
(***************************************************************************)
\* the most components attached to the owner
MaxComponents == 3
\* the most display nodes on one stage
MaxChildren == 3
\* the most display nodes on the stage whose visibility is followed
MaxCulled == 1
\* the largest depth key (z) a display node takes
MaxZ == 1
\* the most child entities of the owner
MaxEntities == 2
\* the most elements a RandomSet holds
MaxSet == 3
\* the most entries of a RandomSet's availableIndexes
MaxAvailable == 3
\* the count of triggers of one event after which no more are counted
MaxTriggers == 2
\* the most callbacks setTimeout holds at a time
MaxTimeouts == 2
\* the longest time the voice-over player reports as elapsed
MaxElapsed == 3

\* the elapsed times a tick carries
Deltas == {1, 2}

(***************************************************************************)
(* JavaScript values: a property is undefined, a number, or NaN (the sum of *)
(* undefined and a number).  A comparison with undefined or NaN is false.   *)
(***************************************************************************)
Undefined == [t |-> "undefined", n |-> 0]
NaN == [t |-> "NaN", n |-> 0]
Num(n) == [t |-> "number", n |-> n]
JsAdd(a, b) == IF a.t = "number" /\ b.t = "number" THEN Num(a.n + b.n) ELSE NaN
JsGE(a, b) == a.t = "number" /\ b.t = "number" /\ a.n >= b.n
JsLE(a, b) == a.t = "number" /\ b.t = "number" /\ a.n <= b.n
JsGT(a, b) == a.t = "number" /\ b.t = "number" /\ a.n > b.n
JsLT(a, b) == a.t = "number" /\ b.t = "number" /\ a.n < b.n
\* truthiness of a value that is undefined, NaN or a number
Truthy(a) == a.t = "number" /\ a.n # 0

(***************************************************************************)
(* Numbers that are not whole: n / d in lowest terms, d > 0.  The pixel      *)
(* ratios and scales of the model are powers of two, for which the          *)
(* floating-point quotients of the code are these exact quotients.          *)
(***************************************************************************)
RECURSIVE Gcd(_, _)
Gcd(a, b) == IF b = 0 THEN a ELSE Gcd(b, a % b)
Abs(a) == IF a < 0 THEN -a ELSE a
NotANumber == [t |-> "NaN", n |-> 0, d |-> 1]
\* n / d, d # 0
Ratio(n, d) ==
    LET g == Gcd(Abs(n), Abs(d))
        sgn == IF d < 0 THEN -1 ELSE 1
    IN  [t |-> "number", n |-> sgn * (n \div g), d |-> sgn * (d \div g)]
\* a JavaScript value (undefined, NaN or a whole number) as an operand
Operand(v) == IF v.t = "number" THEN Ratio(v.n, 1) ELSE NotANumber
\* a / b, b # 0
Divide(a, b) ==
    IF a.t = "number" /\ b.t = "number" THEN Ratio(a.n * b.d, a.d * b.n) ELSE NotANumber
Times(a, b) ==
    IF a.t = "number" /\ b.t = "number" THEN Ratio(a.n * b.n, a.d * b.d) ELSE NotANumber
Plus(a, b) ==
    IF a.t = "number" /\ b.t = "number" THEN Ratio(a.n * b.d + b.n * a.d, a.d * b.d)
    ELSE NotANumber

(***************************************************************************)
(* JavaScript objects with the keys the render message and the extra        *)
(* content carry: the set of own keys, and a value for each (0 for a key    *)
(* the object does not have).  delta is an elapsed time; stage is the index *)
(* of the handler whose stage it is.                                        *)
(***************************************************************************)
Keys == {"delta", "stage", "extra"}
EmptyObj == [keys |-> {}, val |-> [k \in Keys |-> 0]]
Has(o, k) == k \in o.keys
Put(o, k, v) == [keys |-> o.keys \cup {k}, val |-> [o.val EXCEPT ![k] = v]]
\* for (i in src) if (src.hasOwnProperty(i)) dst[i] = src[i]
CopyOwn(dst, src) ==
    [keys |-> dst.keys \cup src.keys,
     val |-> [k \in Keys |-> IF k \in src.keys THEN src.val[k] ELSE dst.val[k]]]
\* for (i in src) delete dst[i]
DeleteOwn(dst, src) ==
    [keys |-> dst.keys \ src.keys,
     val |-> [k \in Keys |-> IF k \in src.keys THEN 0 ELSE dst.val[k]]]

(***************************************************************************)
(* Component types.  A component's type is the id of its class; the type is *)
(* compared through its characters, so that substring(0, 14) is computed.   *)
(***************************************************************************)
\* id: "HandlerRenderCreateJS"
TypeHandlerRenderCreateJS == "HandlerRenderCreateJS"
\* a render handler of another class, named with the 'handler-render' prefix
TypeHandlerRenderDom == "handler-render-dom"
\* id: "AudioVO", a component that is no render handler
TypeAudioVO == "AudioVO"
ComponentTypes == {TypeHandlerRenderCreateJS, TypeHandlerRenderDom, TypeAudioVO}
\* the characters of a type
Characters(type) ==
    CASE type = TypeHandlerRenderCreateJS ->
            <<"H","a","n","d","l","e","r","R","e","n","d","e","r","C","r","e","a","t","e","J","S">>
      [] type = TypeHandlerRenderDom ->
            <<"h","a","n","d","l","e","r","-","r","e","n","d","e","r","-","d","o","m">>
      [] type = TypeAudioVO -> <<"A","u","d","i","o","V","O">>
\* the literal 'handler-render' the load handler compares with
HandlerRenderPrefix == <<"h","a","n","d","l","e","r","-","r","e","n","d","e","r">>
\* String.prototype.substring(from, to), 0 <= from <= to
Substring(s, from, to) ==
    SubSeq(s, from + 1, IF to < Len(s) THEN to ELSE Len(s))

(***************************************************************************)
(* DOM elements: null, the owner's rootElement, an element the owner had    *)
(* before the handler was constructed, or the canvas of handler `of`.       *)
(***************************************************************************)
NullElement == [kind |-> "null", of |-> 0]
RootElement == [kind |-> "rootElement", of |-> 0]
OwnerElement == [kind |-> "element", of |-> 0]
CanvasElement(h) == [kind |-> "canvas", of |-> h]

(***************************************************************************)
(* Display nodes of a stage, and rectangles.                                *)
(***************************************************************************)
NoBounds == [some |-> FALSE, x |-> 0, y |-> 0, width |-> 0, height |-> 0]
Rect(x, y, w, h) == [some |-> TRUE, x |-> x, y |-> y, width |-> w, height |-> h]
EntityManaged == "entity-managed"
Node(id, z, hidden, visible, paused, name, bounds) ==
    [id |-> id, z |-> z, hidden |-> hidden, visible |-> visible,
     paused |-> paused, name |-> name, bounds |-> bounds]

VARIABLES
    components,     \* owner.components: the types of the attached components
    hasChildren,    \* whether the owner has triggerEventOnChildren
    ownerElement,   \* owner.element
    canvasParent,   \* owner.canvasParent
    domParent,      \* per handler: the element its canvas is a child of
    canvas,         \* per handler: this.canvas is defined
    stage,          \* per handler: this.stage is defined
    loaded,         \* per handler: 'load' has been handled
    handleChildren, \* per handler: this.handleChildren
    listening,      \* per handler: listens for 'handle-render-addition'
    extraContent,   \* per handler: this.extraContent (false, or an object)
    paused,         \* per handler: this.paused
    camera,         \* per handler: this.camera
    renderMessage,  \* per handler: this.renderMessage
    children,       \* per handler: this.stage.children
    reorder,        \* per handler: this.stage.reorder
    pending,        \* the handlers the current owner tick is still to reach
    frameDelta,     \* the delta of the owner tick being delivered
    renders,        \* 'handle-render' broadcasts made in the current owner tick
    lastCameraInfo, \* per handler: the last camera-update payload received
    contributors,   \* per handler: the handlers whose additions it absorbed since its last tick
    last,           \* what the last event did
    devicePixelRatio, \* window.devicePixelRatio
    acceptInput,    \* per handler: definition.acceptInput
    stageListeners, \* per handler: the stage has the three pointer listeners
    moveMouse,      \* per handler: this.moveMouse, and the press it closes over
    originalEvent,  \* per handler: the event setXY saw last
    xy,             \* per handler: the x and y setXY computed last
    scale,          \* per handler: stage.scaleX and stage.scaleY
    down,           \* per handler: a press has been handled and no release since
    renderList,     \* the children the owner's broadcast of 'handle-render' goes to, in order
    handlesRender,  \* the children that handle 'handle-render' at present
    dropped,        \* the children dropped from the broadcast and not added since
    contents,       \* RandomSet: this.contents
    availableIndexes, \* RandomSet: this.availableIndexes, positions counted from 0
    served,         \* RandomSet: the set of positions get has returned since the last refill
    got,            \* RandomSet: what the last call did
    properties,     \* LogicCanvasButton: onPress, onRelease, onCancel, useOnce, disabled
    state,          \* LogicCanvasButton: owner.state (disabled, down, highlighted)
    buttonMode,     \* LogicCanvasButton: owner.buttonMode
    cancelled,      \* LogicCanvasButton: this.cancelled
    usedPress,      \* LogicCanvasButton: this.usedPress
    usedRelease,    \* LogicCanvasButton: this.usedRelease
    triggers,       \* LogicCanvasButton: how often each event has been triggered on the owner
    movedOff,       \* LogicCanvasButton: the press is off the button since the last mousedown
    handled,        \* LogicCanvasButton: what the last event did
    android4,       \* the browser is the Android 4.1 or 4.2 native browser
    autoClear,      \* per handler: this.stage.autoClear
    canvasId,       \* per handler: this.canvas.id
    opacity,        \* per handler: this.canvas.style.opacity, in hundredths
    timeouts,       \* the callbacks setTimeout holds, oldest first, by the handler that set them
    eventList,      \* AudioVO: this.eventList
    voDestroyed,    \* AudioVO: destroy() has run, this.eventList is null
    playingAudio,   \* AudioVO: this.playingAudio
    voPlayer,       \* AudioVO: this.player, the voice-over player
    voLog,          \* AudioVO: what has been triggered on the owner since the last playSound
    voLast          \* AudioVO: what the last event did

vars == <<components, hasChildren, ownerElement, canvasParent, domParent, canvas,
          stage, loaded, handleChildren, listening, extraContent, paused, camera,
          renderMessage, children, reorder, pending, frameDelta, renders,
          lastCameraInfo, contributors, last, devicePixelRatio, acceptInput,
          stageListeners, moveMouse, originalEvent, xy, scale, down,
          renderList, handlesRender, dropped,
          contents, availableIndexes, served, got,
          properties, state, buttonMode, cancelled, usedPress, usedRelease,
          triggers, movedOff, handled,
          android4, autoClear, canvasId, opacity, timeouts,
          eventList, voDestroyed, playingAudio, voPlayer, voLog, voLast>>

\* the state of the render handlers and their owner
handlerVars == <<components, hasChildren, ownerElement, canvasParent, domParent, canvas,
                 stage, loaded, handleChildren, listening, extraContent, paused, camera,
                 renderMessage, children, reorder, pending, frameDelta, renders,
                 lastCameraInfo, contributors, last>>
\* the state of a RandomSet
randomSetVars == <<contents, availableIndexes, served, got>>

\* the state of an AudioVO and its player
voVars == <<eventList, voDestroyed, playingAudio, voPlayer, voLog, voLast>>

\* the browser, the canvas style and the timers
androidVars == <<android4, autoClear, canvasId, opacity, timeouts>>

\* the state of a LogicCanvasButton
buttonVars == <<properties, state, buttonMode, cancelled, usedPress, usedRelease,
                triggers, movedOff, handled>>

\* the state of the owner's broadcast to its children
containerVars == <<renderList, handlesRender, dropped>>

\* the state of the pointer translator
inputVars == <<devicePixelRatio, acceptInput, stageListeners, moveMouse, originalEvent,
               xy, scale, down>>

\* the render handlers among the owner's components
Handlers == {i \in DOMAIN components : components[i] = TypeHandlerRenderCreateJS}
AllLoaded == \A h \in Handlers : loaded[h]

(***************************************************************************)
(* The constructor, run for each render handler in attachment order.        *)
(* o is the owner: [element, canvasParent, domParent].                      *)
(***************************************************************************)
Constructor(o, h) ==
    IF o.element # NullElement
    THEN [element |-> o.element,
          canvasParent |-> o.element,
          domParent |-> [o.domParent EXCEPT ![h] = o.element]]
    ELSE [element |-> CanvasElement(h),
          canvasParent |-> RootElement,
          domParent |-> [o.domParent EXCEPT ![h] = RootElement]]

RECURSIVE Construct(_, _, _)
Construct(comps, i, o) ==
    IF i > Len(comps) THEN o
    ELSE Construct(comps, i + 1,
                   IF comps[i] = TypeHandlerRenderCreateJS THEN Constructor(o, i) ELSE o)

\* this.camera as the constructor leaves it: left, top, width, height
InitialCamera ==
    [left |-> Num(0), top |-> Num(0), x |-> Undefined, y |-> Undefined,
     width |-> Num(0), height |-> Num(0)]
\* this.renderMessage as the constructor leaves it: {delta: 0, stage: this.stage}
InitialRenderMessage(h) == Put(Put(EmptyObj, "delta", 0), "stage", h)
\* this.extraContent = false
NoExtraContent == [set |-> FALSE, obj |-> EmptyObj]

NoCameraInfo == [some |-> FALSE, viewportLeft |-> 0, viewportTop |-> 0,
                 viewportWidth |-> 0, viewportHeight |-> 0,
                 scaleX |-> Ratio(1, 1), scaleY |-> Ratio(1, 1)]

\* definition.acceptInput: absent, or the four flags
NoAcceptInput == [some |-> FALSE, click |-> FALSE, touch |-> FALSE,
                  movement |-> FALSE, camera |-> FALSE]
AcceptInput(click, touch, movement, cam) ==
    [some |-> TRUE, click |-> click, touch |-> touch, movement |-> movement, camera |-> cam]
\* whether the constructor calls setupInput
SetsUpInput(accept) == accept.some /\ (accept.click \/ accept.touch)

\* a raw event of the stage: its stage position and its native event
NativeEvent(which, touches) == [which |-> which, touches |-> touches]
StageEvent(stageX, stageY, native) ==
    [some |-> TRUE, stageX |-> stageX, stageY |-> stageY, nativeEvent |-> native]
\* originalEvent = null
NoEvent == [some |-> FALSE, stageX |-> 0, stageY |-> 0,
            nativeEvent |-> NativeEvent(Undefined, FALSE)]
\* this.moveMouse is not set
NoMoveMouse == [set |-> FALSE, nativeEvent |-> NativeEvent(Undefined, FALSE)]

\* no child's handling fails
NoFault == [child |-> 0, propagates |-> FALSE]

\* the record of an event
Event(op, h, threw) ==
    [op |-> op, h |-> h, threw |-> threw, hadStage |-> FALSE, broadcast |-> FALSE,
     emitted |-> FALSE, message |-> EmptyObj, merged |-> {}, absorbed |-> {},
     contributors |-> {},
     cullCamera |-> InitialCamera, before |-> <<>>, culled |-> <<>>,
     reorderFound |-> FALSE, sorted |-> FALSE, updates |-> 0, telemetry |-> <<>>,
     triggered |-> <<>>, arg |-> NoEvent, returned |-> [x |-> NotANumber, y |-> NotANumber],
     entity |-> 0, load |-> [stage |-> 0, parentElement |-> NullElement],
     delivered |-> {}, fault |-> NoFault, pauseFound |-> Undefined, steps |-> <<>>,
     delta |-> 0, arrived |-> {}, removed |-> {}]

(***************************************************************************)
(* RandomSet (src/src/RandomSet.js): a list of contents and the positions   *)
(* of it that get may still return before the next refill.  Positions count *)
(* from 0, as in the code; -1 stands for undefined.                         *)
(***************************************************************************)
\* Array.prototype.indexOf, counted from 0: the first position of x, or -1
ArrayIndexOf(arr, x) ==
    IF \E i \in 1..Len(arr) : arr[i] = x
    THEN (CHOOSE i \in 1..Len(arr) : arr[i] = x /\ \A j \in 1..(i - 1) : arr[j] # x) - 1
    ELSE -1
\* Array.prototype.splice(i, 1): the array without the element at position i
Splice(arr, i) == [j \in 1..(Len(arr) - 1) |-> IF j <= i THEN arr[j] ELSE arr[j + 1]]

\* refill: every position of contents is pushed onto availableIndexes
Refill(indexes, n) == indexes \o [i \in 1..n |-> i - 1]

\* the record of a call
Call(op, refilled, index, value, unreturned, repeated) ==
    [op |-> op, refilled |-> refilled, index |-> index, value |-> value,
     unreturned |-> unreturned, repeated |-> repeated, toReturn |-> <<>>]

\* new RandomSet(initial)
RandomSetConstructor(initial) ==
    /\ contents = initial
    /\ availableIndexes = Refill(<<>>, Len(initial))
    /\ served = {}
    /\ got = Call("constructor", FALSE, -1, "undefined", {}, FALSE)

(***************************************************************************)
(* LogicCanvasButton (src/unnamed/part_000): a button on an entity.  The    *)
(* events it triggers on its owner are named by its properties; "" names no *)
(* event.                                                                   *)
(***************************************************************************)
ButtonEvents == {"pressed", "released", "cancelled"}
Properties(onPress, onRelease, onCancel, useOnce, disabled) ==
    [onPress |-> onPress, onRelease |-> onRelease, onCancel |-> onCancel,
     useOnce |-> useOnce, disabled |-> disabled]

\* what an event of the button did: the event it triggered on the owner ("" for
\* none), whether it stopped the propagation of the pointer event, and the
\* button's state when the event arrived
Handled(op, triggered, stopped) ==
    [op |-> op, triggered |-> triggered, stopped |-> stopped,
     wasDown |-> state.down, wasDisabled |-> state.disabled,
     wasCancelled |-> cancelled, wasMovedOff |-> movedOff,
     wasUsedPress |-> usedPress, wasUsedRelease |-> usedRelease]

\* owner.trigger(name), counted up to MaxTriggers
Trigger(counts, name) ==
    IF name = "" THEN counts
    ELSE [counts EXCEPT ![name] = IF @ < MaxTriggers THEN @ + 1 ELSE @]

LogicCanvasButtonConstructor(props) ==
    /\ properties = props
    /\ state = [disabled |-> props.disabled, down |-> FALSE, highlighted |-> FALSE]
    /\ buttonMode = ~props.disabled
    /\ cancelled = FALSE
    /\ usedPress = FALSE
    /\ usedRelease = FALSE
    /\ triggers = [e \in ButtonEvents |-> 0]
    /\ movedOff = FALSE
    /\ handled = [op |-> "constructor", triggered |-> "", stopped |-> FALSE,
                  wasDown |-> FALSE, wasDisabled |-> props.disabled,
                  wasCancelled |-> FALSE, wasMovedOff |-> FALSE,
                  wasUsedPress |-> FALSE, wasUsedRelease |-> FALSE]

ConstructedHandlers(comps, element, kids, accept, ratio) ==
    LET hs == {i \in DOMAIN comps : comps[i] = TypeHandlerRenderCreateJS}
        o == Construct(comps, 1, [element |-> element, canvasParent |-> NullElement,
                                  domParent |-> [h \in hs |-> NullElement]])
    IN  /\ components = comps
        /\ hasChildren = kids
        /\ ownerElement = o.element
        /\ canvasParent = o.canvasParent
        /\ domParent = o.domParent
        /\ canvas = [h \in hs |-> TRUE]
        /\ stage = [h \in hs |-> TRUE]
        /\ loaded = [h \in hs |-> FALSE]
        /\ handleChildren = [h \in hs |-> TRUE]
        /\ listening = [h \in hs |-> FALSE]
        /\ extraContent = [h \in hs |-> NoExtraContent]
        /\ paused = [h \in hs |-> Undefined]
        /\ camera = [h \in hs |-> InitialCamera]
        /\ renderMessage = [h \in hs |-> InitialRenderMessage(h)]
        /\ children = [h \in hs |-> <<>>]
        /\ reorder = [h \in hs |-> FALSE]
        /\ pending = {}
        /\ frameDelta = 0
        /\ renders = 0
        /\ lastCameraInfo = [h \in hs |-> NoCameraInfo]
        /\ contributors = [h \in hs |-> {}]
        /\ last = Event("constructor", 0, FALSE)
        /\ devicePixelRatio = ratio
        /\ acceptInput = [h \in hs |-> accept]
        /\ stageListeners = [h \in hs |-> SetsUpInput(accept)]
        /\ moveMouse = [h \in hs |-> NoMoveMouse]
        /\ originalEvent = [h \in hs |-> NoEvent]
        /\ xy = [h \in hs |-> [x |-> Ratio(0, 1), y |-> Ratio(0, 1)]]
        /\ scale = [h \in hs |-> [scaleX |-> Ratio(1, 1), scaleY |-> Ratio(1, 1)]]
        /\ down = [h \in hs |-> FALSE]
        /\ renderList = <<>>
        /\ handlesRender = {}
        /\ dropped = {}

(***************************************************************************)
(* AudioVO (src/src/components/AudioVO.js): a queue of timed events beside  *)
(* a voice-over player.  The player plays a list of sounds; an item of the  *)
(* list that is a function is called when the player comes to it.  The      *)
(* player calls the one callback when the list has been played and the      *)
(* other when it is stopped, which a new play does first.                   *)
(***************************************************************************)
\* Data.setUp('event', ..., 'time', ...)
TimedEvent(event, time) == [event |-> event, time |-> time]
\* the event triggered when a sequence has ended
SequenceComplete == TimedEvent("sequence-complete", 0)
\* what an event of the component did: the events it triggered on the owner,
\* in order, all those triggered for the sequence it found up to then, the
\* time the player reported, the queue it found, whether it ended a sequence
\* and whether the owner was destroyed by then
VOEvent(op, triggered, sequence, elapsed, queued, ended, ownerDestroyed) ==
    [op |-> op, triggered |-> triggered, sequence |-> sequence, elapsed |-> elapsed,
     queued |-> queued, ended |-> ended, ownerDestroyed |-> ownerDestroyed]
\* the player when it plays nothing: getElapsed() is 0
IdlePlayer == [playing |-> FALSE, voList |-> <<>>, elapsed |-> 0]

AudioVOInitialize ==
    /\ eventList = <<>>
    /\ voDestroyed = FALSE
    /\ playingAudio = FALSE
    /\ voPlayer = IdlePlayer
    /\ voLog = <<>>
    /\ voLast = VOEvent("initialize", <<>>, <<>>, 0, <<>>, FALSE, FALSE)

\* the part of the constructor that reads definition.canvasId and
\* definition.autoClear, in a browser that is or is not the affected Android
\* browser; a new canvas has no opacity set and is drawn with opacity 1
Definition(clear, id) == [autoClear |-> clear, canvasId |-> id]
ConstructedCanvas(isAndroid4, definition) ==
    /\ android4 = isAndroid4
    /\ autoClear = [h \in Handlers |-> definition.autoClear]
    /\ canvasId = [h \in Handlers |-> definition.canvasId]
    /\ opacity = [h \in Handlers |-> 100]
    /\ timeouts = <<>>

\* the owner and its handlers, a RandomSet with no contents and a button with
\* the default properties, in a browser that is not the affected one
Constructed(comps, element, kids, accept, ratio) ==
    /\ ConstructedHandlers(comps, element, kids, accept, ratio)
    /\ ConstructedCanvas(FALSE, Definition(FALSE, ""))
    /\ AudioVOInitialize
    /\ RandomSetConstructor(<<>>)
    /\ LogicCanvasButtonConstructor(Properties("", "", "", FALSE, FALSE))

\* an owner whose handlers take no input, on a display of pixel ratio 1
InitWith(comps, element, kids) == Constructed(comps, element, kids, NoAcceptInput, Num(1))

(***************************************************************************)
(* "load": the last component that is this handler or whose type starts     *)
(* with 'handler-render' decides whether this handler drives the children.  *)
(***************************************************************************)
RECURSIVE LastRenderHandler(_, _, _, _)
LastRenderHandler(comps, this, i, lastFound) ==
    IF i > Len(comps) THEN lastFound
    ELSE LastRenderHandler(comps, this, i + 1,
            IF i = this \/ Substring(Characters(comps[i]), 0, 14) = HandlerRenderPrefix
            THEN i ELSE lastFound)

Load(h) ==
    /\ h \in Handlers
    /\ ~loaded[h]
    /\ pending = {}
    /\ LET lastFound == LastRenderHandler(components, h, 1, 0)
       IN  /\ handleChildren' = [handleChildren EXCEPT ![h] = IF lastFound # h THEN FALSE ELSE @]
           /\ listening' = [listening EXCEPT ![h] = (lastFound = h)]
    /\ loaded' = [loaded EXCEPT ![h] = TRUE]
    /\ last' = Event("load", h, FALSE)
    /\ UNCHANGED <<components, hasChildren, ownerElement, canvasParent, domParent,
                   canvas, stage, extraContent, paused, camera, renderMessage,
                   children, reorder, pending, frameDelta, renders, lastCameraInfo, contributors,
                   devicePixelRatio, acceptInput, stageListeners, moveMouse,
                   originalEvent, xy, scale, down>>
    /\ UNCHANGED <<randomSetVars, buttonVars, androidVars, voVars>>
    /\ UNCHANGED containerVars

(***************************************************************************)
(* The owner's broadcast to its children (the entity container).  The       *)
(* container adds a child to the broadcast list when it arrives; a          *)
(* broadcast reaches the listed children in order, and a listed child that  *)
(* does not handle the message is dropped from the list.  A child whose     *)
(* handling fails either has the failure contained by the container, or the *)
(* failure leaves the broadcast and its caller at that child.               *)
(***************************************************************************)
ChildEntities == 1..MaxEntities
Elements(list) == {list[i] : i \in 1..Len(list)}
\* the child has a place in the list at or before position n
Before(list, n) == {list[i] : i \in 1..n}
\* the position of a child in the list, 0 when it has none
IndexOf(list, e) == IF e \in Elements(list) THEN CHOOSE i \in 1..Len(list) : list[i] = e ELSE 0

\* the list once the child has arrived
Registered(list, entity) == IF entity \in Elements(list) THEN list ELSE Append(list, entity)

\* whether this child's handling can fail in a broadcast to this list
CanFail(list, handles, fault) ==
    fault.child = 0 \/ (fault.child \in Elements(list) /\ fault.child \in handles)

\* triggerEventOnChildren: the children reached, the list afterwards, the
\* children dropped, and whether the failure of a child left the broadcast
TriggerEventOnChildren(list, handles, fault) ==
    LET stop == IF fault.child # 0 /\ fault.propagates
                THEN IndexOf(list, fault.child) ELSE Len(list)
        visited == Before(list, stop)
        evicted == visited \ handles
    IN  [delivered |-> visited \cap handles,
         list |-> SelectSeq(list, LAMBDA e : e \notin evicted),
         evicted |-> evicted,
         threw |-> fault.child # 0 /\ fault.propagates]

(***************************************************************************)
(* "child-entity-added": the new child is sent 'handle-render-load' with    *)
(* the handler's stage and owner.rootElement; the handler's own state is    *)
(* not changed.  What the child then adds to the stage is the environment's *)
(* AddChild.                                                                *)
(***************************************************************************)
\* {stage: self.stage, parentElement: self.owner.rootElement}; a stage is named by
\* the handler it belongs to, 0 when the handler has none
HandleRenderLoad(h, stagePresent) ==
    [stage |-> IF stagePresent THEN h ELSE 0, parentElement |-> RootElement]

ChildEntityAdded(h, entity) ==
    /\ h \in Handlers
    /\ AllLoaded
    /\ pending = {}
    /\ hasChildren
    /\ renderList' = Registered(renderList, entity)
    /\ dropped' = dropped \ {entity}
    /\ last' = [Event("child-entity-added", h, FALSE) EXCEPT
                   !.entity = entity,
                   !.load = HandleRenderLoad(h, stage[h])]
    /\ UNCHANGED <<components, hasChildren, ownerElement, canvasParent, domParent,
                   canvas, stage, loaded, handleChildren, listening, extraContent,
                   paused, camera, renderMessage, children, reorder, pending,
                   frameDelta, renders, lastCameraInfo, contributors,
                   devicePixelRatio, acceptInput, stageListeners, moveMouse,
                   originalEvent, xy, scale, down, handlesRender>>
    /\ UNCHANGED <<randomSetVars, buttonVars, androidVars, voVars>>

(***************************************************************************)
(* The 'handle-render-addition' listener of a primary handler.              *)
(***************************************************************************)
HandleRenderAddition(ec, addition) ==
    [set |-> TRUE, obj |-> CopyOwn(IF ec.set THEN ec.obj ELSE EmptyObj, addition)]

(***************************************************************************)
(* "pause-render" and "unpause-render".  resp is [some, time]: the payload  *)
(* may be missing, and its time may be missing (undefined).                 *)
(***************************************************************************)
PauseValue(resp) == IF resp.some /\ Truthy(resp.time) THEN resp.time ELSE Num(-1)

PauseRender(h, resp) ==
    /\ h \in Handlers
    /\ AllLoaded
    /\ pending = {}
    /\ paused' = [paused EXCEPT ![h] = PauseValue(resp)]
    /\ last' = Event("pause-render", h, FALSE)
    /\ UNCHANGED <<components, hasChildren, ownerElement, canvasParent, domParent,
                   canvas, stage, loaded, handleChildren, listening, extraContent,
                   camera, renderMessage, children, reorder, pending, frameDelta,
                   renders, lastCameraInfo, contributors,
                   devicePixelRatio, acceptInput, stageListeners, moveMouse,
                   originalEvent, xy, scale, down>>
    /\ UNCHANGED <<randomSetVars, buttonVars, androidVars, voVars>>
    /\ UNCHANGED containerVars

UnpauseRender(h) ==
    /\ h \in Handlers
    /\ AllLoaded
    /\ pending = {}
    /\ paused' = [paused EXCEPT ![h] = Num(0)]
    /\ last' = Event("unpause-render", h, FALSE)
    /\ UNCHANGED <<components, hasChildren, ownerElement, canvasParent, domParent,
                   canvas, stage, loaded, handleChildren, listening, extraContent,
                   camera, renderMessage, children, reorder, pending, frameDelta,
                   renders, lastCameraInfo, contributors,
                   devicePixelRatio, acceptInput, stageListeners, moveMouse,
                   originalEvent, xy, scale, down>>
    /\ UNCHANGED <<randomSetVars, buttonVars, androidVars, voVars>>
    /\ UNCHANGED containerVars

(***************************************************************************)
(* "tick", its parts.                                                       *)
(***************************************************************************)
\* variant of PauseCountdown: the result is not held at 0
PauseCountdownUnclamped(p, delta) ==
    IF JsGT(p, Num(0)) THEN Num(p.n - delta) ELSE p

\* if (this.paused > 0) { this.paused -= delta; if (this.paused < 0) this.paused = 0; }
PauseCountdown(p, delta) ==
    IF JsGT(p, Num(0))
    THEN (IF p.n - delta < 0 THEN Num(0) ELSE Num(p.n - delta))
    ELSE p

\* variant of InCamera: strict comparisons, so that touching edges do not overlap
InCameraStrict(bounds, cam) ==
    /\ JsGT(Num(bounds.x + bounds.width), cam.x)
    /\ JsLT(Num(bounds.x), JsAdd(cam.x, cam.width))
    /\ JsGT(Num(bounds.y + bounds.height), cam.y)
    /\ JsLT(Num(bounds.y), JsAdd(cam.y, cam.height))

\* the overlap test of the bounds rectangle and the camera rectangle
InCamera(bounds, cam) ==
    /\ JsGE(Num(bounds.x + bounds.width), cam.x)
    /\ JsLE(Num(bounds.x), JsAdd(cam.x, cam.width))
    /\ JsGE(Num(bounds.y + bounds.height), cam.y)
    /\ JsLE(Num(bounds.y), JsAdd(cam.y, cam.height))

\* variant of Visibility: the name is tested before the hidden flag
VisibilityNameFirst(child, cam) ==
    IF child.name = EntityManaged
    THEN child.visible
    ELSE IF child.hidden
         THEN FALSE
         ELSE (~child.bounds.some) \/ InCamera(child.bounds, cam)

\* variant of Visibility: the name is not tested
VisibilityNoSentinel(child, cam) ==
    IF child.hidden
    THEN FALSE
    ELSE (~child.bounds.some) \/ InCamera(child.bounds, cam)

\* child.visible after the visibility branch of the pass
Visibility(child, cam) ==
    IF child.hidden
    THEN FALSE
    ELSE IF child.name # EntityManaged
         THEN (~child.bounds.some) \/ InCamera(child.bounds, cam)
         ELSE child.visible

\* variant of PausePropagation: the branch is run for the children that are not
\* visible as well
PausePropagationToAll(child, visible, p) ==
    IF child.paused /\ ~Truthy(p) THEN FALSE
    ELSE IF Truthy(p) THEN TRUE ELSE child.paused

\* variant of PausePropagation: a paused child is never resumed
PausePropagationNoResume(child, visible, p) ==
    IF visible /\ Truthy(p) THEN TRUE ELSE child.paused

\* child.paused after the pause branch of the pass, visible being the new child.visible
PausePropagation(child, visible, p) ==
    IF visible
    THEN (IF child.paused /\ ~Truthy(p) THEN FALSE
          ELSE IF Truthy(p) THEN TRUE ELSE child.paused)
    ELSE child.paused

CullChild(child, cam, p) ==
    LET v == Visibility(child, cam)
    IN  [child EXCEPT !.visible = v, !.paused = PausePropagation(child, v, p)]

\* for (x = children.length - 1; x > -1; x--); x is the 1-based position
RECURSIVE CullPass(_, _, _, _)
CullPass(nodes, x, cam, p) ==
    IF x < 1 THEN nodes
    ELSE CullPass([nodes EXCEPT ![x] = CullChild(nodes[x], cam, p)], x - 1, cam, p)

\* the comparator handed to sortChildren
sort(a, b) == a.z - b.z

(***************************************************************************)
(* stage.sortChildren(sort) is Array.prototype.sort on the child list: the  *)
(* result is a permutation ordered by the comparator; the order of elements *)
(* that compare equal is left to the engine (the sort need not be stable).  *)
(***************************************************************************)
SortChildren(nodes) ==
    {s \in {[i \in 1..Len(nodes) |-> nodes[p[i]]] : p \in Permutations(1..Len(nodes))} :
        \A i, j \in 1..Len(nodes) : i < j => sort(s[i], s[j]) <= 0}

\* variant of MergeExtraContent: the extra content is not copied
MergeNothing(message, ec) == message

\* the message the children receive: the extra content copied into the render message
MergeExtraContent(message, ec) ==
    IF ec.set THEN CopyOwn(message, ec.obj) ELSE message

\* variant of CleanRenderMessage: the keys are deleted from the extra content only
CleanRenderMessageKept(message, ec) == message

\* the render message once the extra-content keys have been deleted from it
CleanRenderMessage(message, ec) ==
    IF ec.set THEN DeleteOwn(message, ec.obj) ELSE message

\* the extra content once its keys have been deleted
CleanExtraContent(ec) ==
    IF ec.set THEN [set |-> TRUE, obj |-> DeleteOwn(ec.obj, ec.obj)] ELSE ec

\* variant of SortsChildren: the flag is not tested
SortsAlways(reorderFlag) == TRUE

\* whether the tick sorts the stage children: if (this.stage.reorder)
SortsChildren(reorderFlag) == reorderFlag

\* variant of Broadcasts: every handler broadcasts to the owner's children
BroadcastsAlways(primary, hasTrigger) == hasTrigger

\* whether the tick broadcasts 'handle-render': if (this.handleChildren) and
\* if (this.owner.triggerEventOnChildren)
Broadcasts(primary, hasTrigger) == primary /\ hasTrigger

\* whether the tick works around the duplicated canvas: if (android4 && this.stage.autoClear)
FixesOpacity(isAndroid4, clears) == isAndroid4 /\ clears

\* whether the tick reaches the stage part: if (this.stage)
ReachesStage(stagePresent) == stagePresent

\* variant of HandleRenderTargets: the handler sends to every child that has arrived
HandleRenderTargetsAll(list, evicted) ==
    list \o SelectSeq([i \in 1..MaxEntities |-> i], LAMBDA e : e \in evicted)

\* the children 'handle-render' is sent to: those of the owner's broadcast,
\* this.owner.triggerEventOnChildren('handle-render', message)
HandleRenderTargets(list, evicted) == list

\* variant of TickSteps: the stage is committed before the children are sorted
TickStepsCommitFirst(primary, broadcast, aborted, reaches, sorts) ==
    <<"pause">>
    \o (IF primary THEN (IF broadcast THEN <<"handle-render">> ELSE <<>>)
        ELSE <<"handle-render-addition">>)
    \o (IF reaches
        THEN <<"cull", "Render-Prep", "update">>
             \o (IF sorts THEN <<"sort">> ELSE <<>>) \o <<"Render">>
        ELSE <<>>)

\* the steps of one tick, in the order of the statements of the handler: the
\* pause countdown, the broadcast or the emission, and with a stage the pass
\* over the children, the sort, and the commit between its two telemetry samples
TickSteps(primary, broadcast, aborted, reaches, sorts) ==
    <<"pause">>
    \o (IF primary THEN (IF broadcast THEN <<"handle-render">> ELSE <<>>)
        ELSE <<"handle-render-addition">>)
    \o (IF reaches
        THEN <<"cull">> \o (IF sorts THEN <<"sort">> ELSE <<>>)
             \o <<"Render-Prep", "update", "Render">>
        ELSE <<>>)

(***************************************************************************)
(* "tick": the whole handler.  The owner delivers one tick, with one delta, *)
(* to every handler; the first delivery of a tick opens it.  The children's *)
(* own handling of 'handle-render' is not part of this component: what they *)
(* do to their display nodes is the environment's actions below.  When the  *)
(* failure of a child leaves the broadcast, it leaves the handler at the    *)
(* broadcast and the owner's delivery of the tick with it.  A child that    *)
(* handles 'handle-render' may trigger 'handle-render-addition' on the      *)
(* owner: the listener then runs inside the broadcast, after the merge and  *)
(* before the clean-up.                                                     *)
(***************************************************************************)
\* a 'handle-render-addition' that reaches the owner while the broadcast is
\* in progress; and none
Arrival(addition) == [some |-> TRUE, addition |-> addition]
NoArrival == [some |-> FALSE, addition |-> EmptyObj]

TickDuring(h, delta, fault, arriving) ==
    /\ h \in Handlers
    /\ AllLoaded
    /\ IF pending = {} THEN TRUE ELSE h \in pending /\ delta = frameDelta
    /\ FixesOpacity(android4, autoClear[h]) => Len(timeouts) < MaxTimeouts
    /\ LET message == Put(renderMessage[h], "delta", delta)
           p == PauseCountdown(paused[h], delta)
           primary == handleChildren[h]
           ec == extraContent[h]
           sent == IF primary THEN MergeExtraContent(message, ec) ELSE message
           broadcast == Broadcasts(primary, hasChildren)
           targets == IF broadcast THEN HandleRenderTargets(renderList, dropped) ELSE <<>>
           outcome == TriggerEventOnChildren(targets, handlesRender, fault)
           aborted == outcome.threw
           listeners == IF primary THEN {} ELSE {g \in Handlers : listening[g]}
           reaches == ReachesStage(stage[h]) /\ ~aborted
           culled == CullPass(children[h], Len(children[h]), camera[h], p)
           sorts == reaches /\ SortsChildren(reorder[h])
           rest == (IF pending = {} THEN Handlers ELSE pending) \ {h}
           ecAfter == IF arriving.some THEN HandleRenderAddition(ec, arriving.addition)
                      ELSE ec
       IN  /\ CanFail(targets, handlesRender, fault)
           /\ arriving.some => (broadcast /\ outcome.delivered # {} /\ listening[h])
           /\ paused' = [paused EXCEPT ![h] = p]
           /\ renderMessage' = [renderMessage EXCEPT ![h] =
                                   IF ~primary THEN message
                                   ELSE IF aborted THEN sent
                                   ELSE CleanRenderMessage(sent, ecAfter)]
           /\ extraContent' = [g \in Handlers |->
                                   IF g = h /\ primary
                                   THEN (IF aborted THEN ecAfter
                                         ELSE CleanExtraContent(ecAfter))
                                   ELSE IF g \in listeners
                                        THEN HandleRenderAddition(extraContent[g], message)
                                        ELSE extraContent[g]]
           /\ renderList' = IF broadcast THEN outcome.list ELSE renderList
           /\ dropped' = dropped \cup outcome.evicted
           /\ \E ordered \in (IF sorts THEN SortChildren(culled) ELSE {culled}) :
                /\ children' = [children EXCEPT ![h] = IF reaches THEN ordered ELSE @]
                /\ last' = [Event("tick", h, aborted) EXCEPT
                               !.hadStage = stage[h],
                               !.broadcast = broadcast,
                               !.emitted = ~primary,
                               !.message = sent,
                               !.merged = IF primary /\ ec.set THEN ec.obj.keys ELSE {},
                               !.absorbed = listeners,
                               !.contributors = contributors[h],
                               !.cullCamera = IF reaches THEN camera[h] ELSE InitialCamera,
                               !.before = IF reaches THEN children[h] ELSE <<>>,
                               !.culled = IF reaches THEN culled ELSE <<>>,
                               !.reorderFound = reaches /\ reorder[h],
                               !.sorted = sorts,
                               !.updates = IF reaches THEN 1 ELSE 0,
                               !.telemetry = IF reaches
                                             THEN <<"Render-Prep", "Render">> ELSE <<>>,
                               !.delivered = outcome.delivered,
                               !.fault = fault,
                               !.pauseFound = paused[h],
                               !.delta = delta,
                               !.arrived = IF arriving.some THEN arriving.addition.keys
                                           ELSE {},
                               !.removed = IF primary /\ ~aborted /\ ecAfter.set
                                           THEN ecAfter.obj.keys ELSE {},
                               !.steps = TickSteps(primary, broadcast, aborted, reaches,
                                                   sorts)]
           /\ contributors' = [g \in Handlers |->
                                   IF g = h THEN (IF aborted THEN contributors[h] ELSE {})
                                   ELSE IF g \in listeners THEN contributors[g] \cup {h}
                                        ELSE contributors[g]]
           /\ reorder' = [reorder EXCEPT ![h] = IF sorts THEN FALSE ELSE @]
           /\ renders' = (IF pending = {} THEN 0 ELSE renders) + (IF broadcast THEN 1 ELSE 0)
           /\ pending' = IF aborted THEN {} ELSE rest
           /\ frameDelta' = IF aborted \/ rest = {} THEN 0 ELSE delta
           /\ LET fixes == reaches /\ FixesOpacity(android4, autoClear[h])
              IN  /\ opacity' = [opacity EXCEPT ![h] = IF fixes THEN 99 ELSE @]
                  /\ timeouts' = IF fixes THEN Append(timeouts, h) ELSE timeouts
    /\ UNCHANGED <<components, hasChildren, ownerElement, canvasParent, domParent,
                   canvas, stage, loaded, handleChildren, listening, camera,
                   lastCameraInfo,
                   devicePixelRatio, acceptInput, stageListeners, moveMouse,
                   originalEvent, xy, scale, down, handlesRender>>
    /\ UNCHANGED <<randomSetVars, buttonVars, android4, autoClear, canvasId, voVars>>

\* a tick during whose broadcast no addition arrives
TickWith(h, delta, fault) == TickDuring(h, delta, fault, NoArrival)

\* a tick in which no child's handling fails
Tick(h, delta) == TickWith(h, delta, NoFault)

(***************************************************************************)
(* The callback the tick hands to setTimeout is an ordinary function, and   *)
(* the timer calls it with the window as this: this.canvas in it is the     *)
(* window's property 'canvas', which is the one element of the document     *)
(* whose id is 'canvas' if there is exactly one, and otherwise is no        *)
(* element, so that setting the opacity fails.                              *)
(***************************************************************************)
\* the handlers whose canvas window.canvas names
CallbackCanvases ==
    {g \in Handlers : canvas[g] /\ canvasId[g] = "canvas" /\ domParent[g] # NullElement}

\* the oldest callback runs: this.canvas.style.opacity = 1
Timeout ==
    /\ Len(timeouts) > 0
    /\ pending = {}
    /\ LET h == Head(timeouts)
           named == CallbackCanvases
           fails == Cardinality(named) # 1
       IN  /\ opacity' = [g \in Handlers |->
                             IF ~fails /\ g \in named THEN 100 ELSE opacity[g]]
           /\ timeouts' = Tail(timeouts)
           /\ last' = Event("timeout", h, fails)
    /\ UNCHANGED <<components, hasChildren, ownerElement, canvasParent, domParent,
                   canvas, stage, loaded, handleChildren, listening, extraContent,
                   paused, camera, renderMessage, children, reorder, pending,
                   frameDelta, renders, lastCameraInfo, contributors>>
    /\ UNCHANGED <<inputVars, containerVars, randomSetVars, buttonVars,
                   android4, autoClear, canvasId, voVars>>

(***************************************************************************)
(* The pointer translator (setupInput).                                     *)
(***************************************************************************)
\* dpr = window.devicePixelRatio || 1
Dpr(ratio) == IF Truthy(ratio) THEN Operand(ratio) ELSE Ratio(1, 1)

\* variant of SetXY: the stage position is multiplied by the pixel ratio
SetXYTimes(event, ratio, sc, cam) ==
    [x |-> Plus(Divide(Times(Ratio(event.stageX, 1), Dpr(ratio)), sc.scaleX), Operand(cam.x)),
     y |-> Plus(Divide(Times(Ratio(event.stageY, 1), Dpr(ratio)), sc.scaleY), Operand(cam.y))]

\* setXY: x = (event.stageX / dpr) / stage.scaleX + camera.x, and y likewise
SetXY(event, ratio, sc, cam) ==
    [x |-> Plus(Divide(Divide(Ratio(event.stageX, 1), Dpr(ratio)), sc.scaleX), Operand(cam.x)),
     y |-> Plus(Divide(Divide(Ratio(event.stageY, 1), Dpr(ratio)), sc.scaleY), Operand(cam.y))]

\* the payload of owner.trigger(name, {event, x, y, entity})
OwnerEvent(name, native, at) == [name |-> name, event |-> native, x |-> at.x, y |-> at.y]

\* the part of a pointer listener all three share: setXY, and the owner event if any
PointerEvent(h, op, event, emits) ==
    /\ h \in Handlers
    /\ AllLoaded
    /\ pending = {}
    /\ stage[h]
    /\ stageListeners[h]
    /\ LET at == SetXY(event, devicePixelRatio, scale[h], camera[h])
       IN  /\ originalEvent' = [originalEvent EXCEPT ![h] = event]
           /\ xy' = [xy EXCEPT ![h] = at]
           /\ last' = [Event(op, h, FALSE) EXCEPT
                          !.arg = event,
                          !.triggered = IF emits
                                        THEN <<OwnerEvent(op, event.nativeEvent, at)>>
                                        ELSE <<>>]
    /\ UNCHANGED <<components, hasChildren, ownerElement, canvasParent, domParent,
                   canvas, stage, loaded, handleChildren, listening, extraContent,
                   paused, camera, renderMessage, children, reorder, pending,
                   frameDelta, renders, lastCameraInfo, contributors,
                   devicePixelRatio, acceptInput, stageListeners, scale>>
    /\ UNCHANGED <<randomSetVars, buttonVars, androidVars, voVars>>
    /\ UNCHANGED containerVars

\* the 'stagemousedown' listener
MouseDown(h, event) ==
    /\ PointerEvent(h, "mousedown", event, TRUE)
    /\ moveMouse' = [moveMouse EXCEPT ![h] =
                        IF acceptInput[h].camera
                        THEN [set |-> TRUE, nativeEvent |-> event.nativeEvent]
                        ELSE @]
    /\ down' = [down EXCEPT ![h] = TRUE]

\* variant of Disarmed: the callback is left in place on release
DisarmedNever(callback, cameraMovementMovesMouse) == callback

\* if (cameraMovementMovesMouse) self.moveMouse = null
Disarmed(callback, cameraMovementMovesMouse) ==
    IF cameraMovementMovesMouse THEN NoMoveMouse ELSE callback

\* the 'stagemouseup' listener
MouseUp(h, event) ==
    /\ PointerEvent(h, "mouseup", event, TRUE)
    /\ moveMouse' = [moveMouse EXCEPT ![h] = Disarmed(@, acceptInput[h].camera)]
    /\ down' = [down EXCEPT ![h] = FALSE]

\* variant of MoveEmits: every move is passed on
MoveEmitsAlways(triggerOnAllMovement, native) == TRUE

\* triggerOnAllMovement || event.nativeEvent.which || event.nativeEvent.touches
MoveEmits(triggerOnAllMovement, native) ==
    triggerOnAllMovement \/ Truthy(native.which) \/ native.touches

\* the 'stagemousemove' listener
MouseMove(h, event) ==
    /\ PointerEvent(h, "mousemove", event,
                    MoveEmits(acceptInput[h].movement, event.nativeEvent))
    /\ UNCHANGED <<moveMouse, down>>

\* variant of WorldPoint: the stage position is divided by the pixel ratio
WorldPointDivided(sp, ratio, sc, cam) ==
    [x |-> Plus(Divide(Divide(Ratio(sp.x, 1), Dpr(ratio)), sc.scaleX), Operand(cam.x)),
     y |-> Plus(Divide(Divide(Ratio(sp.y, 1), Dpr(ratio)), sc.scaleY), Operand(cam.y))]

\* x: (sp.x * dpr) / stage.scaleX + camera.x, and y likewise
WorldPoint(sp, ratio, sc, cam) ==
    [x |-> Plus(Divide(Times(Ratio(sp.x, 1), Dpr(ratio)), sc.scaleX), Operand(cam.x)),
     y |-> Plus(Divide(Times(Ratio(sp.y, 1), Dpr(ratio)), sc.scaleY), Operand(cam.y))]

\* getWorldPointFromScreen(sp); reading stage.scaleX fails when the stage is absent
GetWorldPointFromScreen(h, sp) ==
    /\ h \in Handlers
    /\ AllLoaded
    /\ pending = {}
    /\ last' = [Event("getWorldPointFromScreen", h, ~stage[h]) EXCEPT
                   !.arg = StageEvent(sp.x, sp.y, NativeEvent(Undefined, FALSE)),
                   !.returned = IF stage[h]
                                THEN WorldPoint(sp, devicePixelRatio, scale[h], camera[h])
                                ELSE @]
    /\ UNCHANGED <<components, hasChildren, ownerElement, canvasParent, domParent,
                   canvas, stage, loaded, handleChildren, listening, extraContent,
                   paused, camera, renderMessage, children, reorder, pending,
                   frameDelta, renders, lastCameraInfo, contributors,
                   devicePixelRatio, acceptInput, stageListeners, moveMouse,
                   originalEvent, xy, scale, down>>
    /\ UNCHANGED <<randomSetVars, buttonVars, androidVars, voVars>>
    /\ UNCHANGED containerVars

(***************************************************************************)
(* "camera-update".  The camera rectangle is written first; resizing the    *)
(* canvas fails when the canvas is absent and transforming the stage fails  *)
(* when the stage is absent, and what follows the failure is not run.  The  *)
(* stage is scaled by the camera's scale times the pixel ratio; moveMouse,  *)
(* when set, then runs setXY on the last event and triggers 'mousemove'.    *)
(***************************************************************************)
\* variant of CameraRect: the origin is written to left and top, as the constructor names them
CameraRectLeftTop(cam, cameraInfo) ==
    [cam EXCEPT !.left = Num(cameraInfo.viewportLeft),
                !.top = Num(cameraInfo.viewportTop),
                !.width = Num(cameraInfo.viewportWidth),
                !.height = Num(cameraInfo.viewportHeight)]

CameraRect(cam, cameraInfo) ==
    [cam EXCEPT !.x = Num(cameraInfo.viewportLeft),
                !.y = Num(cameraInfo.viewportTop),
                !.width = Num(cameraInfo.viewportWidth),
                !.height = Num(cameraInfo.viewportHeight)]

\* the scale part of stage.setTransform(..., scaleX * dpr, scaleY * dpr, ...)
StageScale(cameraInfo, ratio) ==
    [scaleX |-> Times(cameraInfo.scaleX, Dpr(ratio)),
     scaleY |-> Times(cameraInfo.scaleY, Dpr(ratio))]

\* whether the handler fails: this.canvas.width = ..., this.stage.setTransform(...)
CameraUpdateFails(canvasPresent, stagePresent) == ~canvasPresent \/ ~stagePresent

\* if (this.moveMouse)
MovesMouse(callback) == callback.set

CameraUpdate(h, cameraInfo) ==
    /\ h \in Handlers
    /\ AllLoaded
    /\ pending = {}
    /\ LET cam == CameraRect(camera[h], cameraInfo)
           fails == CameraUpdateFails(canvas[h], stage[h])
           sc == IF fails THEN scale[h] ELSE StageScale(cameraInfo, devicePixelRatio)
           moves == ~fails /\ MovesMouse(moveMouse[h])
           at == SetXY(originalEvent[h], devicePixelRatio, sc, cam)
       IN  /\ camera' = [camera EXCEPT ![h] = cam]
           /\ scale' = [scale EXCEPT ![h] = sc]
           /\ xy' = [xy EXCEPT ![h] = IF moves THEN at ELSE @]
           /\ last' = [Event("camera-update", h, fails) EXCEPT
                          !.triggered =
                              IF moves
                              THEN <<OwnerEvent("mousemove", moveMouse[h].nativeEvent, at)>>
                              ELSE <<>>]
    /\ lastCameraInfo' = [lastCameraInfo EXCEPT ![h] = cameraInfo]
    /\ UNCHANGED <<components, hasChildren, ownerElement, canvasParent, domParent,
                   canvas, stage, loaded, handleChildren, listening, extraContent,
                   paused, renderMessage, children, reorder, pending, frameDelta,
                   renders, contributors,
                   devicePixelRatio, acceptInput, stageListeners, moveMouse,
                   originalEvent, down>>
    /\ UNCHANGED <<randomSetVars, buttonVars, androidVars, voVars>>
    /\ UNCHANGED containerVars

(***************************************************************************)
(* destroy().  The stage listeners are removed and the stage reference is   *)
(* dropped first; removing the canvas from owner.canvasParent fails when    *)
(* that is null or is not the canvas's parent, and the rest of the method   *)
(* is then not run.                                                         *)
(***************************************************************************)
Destroy(h) ==
    /\ h \in Handlers
    /\ AllLoaded
    /\ pending = {}
    /\ stage[h]
    /\ stageListeners' = [stageListeners EXCEPT ![h] = FALSE]
    /\ stage' = [stage EXCEPT ![h] = FALSE]
    /\ LET fails == canvasParent = NullElement \/ domParent[h] # canvasParent
       IN  /\ domParent' = [domParent EXCEPT ![h] = IF fails THEN @ ELSE NullElement]
           /\ canvasParent' = IF fails THEN canvasParent ELSE NullElement
           /\ ownerElement' = IF fails THEN ownerElement ELSE NullElement
           /\ canvas' = [canvas EXCEPT ![h] = IF fails THEN @ ELSE FALSE]
           /\ last' = Event("destroy", h, fails)
    /\ UNCHANGED <<components, hasChildren, loaded, handleChildren, listening,
                   extraContent, paused, camera, renderMessage, children, reorder,
                   pending, frameDelta, renders, lastCameraInfo, contributors,
                   devicePixelRatio, acceptInput, moveMouse, originalEvent, xy,
                   scale, down>>
    /\ UNCHANGED <<randomSetVars, buttonVars, androidVars, voVars>>
    /\ UNCHANGED containerVars

(***************************************************************************)
(* RandomSet's methods.                                                     *)
(***************************************************************************)
\* add(toAdd)
Add(toAdd) ==
    /\ Len(contents) < MaxSet
    /\ Len(availableIndexes) < MaxAvailable
    /\ contents' = Append(contents, toAdd)
    /\ availableIndexes' = Append(availableIndexes, Len(contents))
    /\ got' = Call("add", FALSE, -1, toAdd, {}, FALSE)
    /\ UNCHANGED <<served, handlerVars, inputVars, containerVars, buttonVars, androidVars, voVars>>

\* one pass of the loop of remove: the first instance leaves contents, and its
\* position leaves availableIndexes if it is there
RemoveFirst(set, toRemove) ==
    LET index == ArrayIndexOf(set.contents, toRemove)
        indexesIndex == ArrayIndexOf(set.availableIndexes, index)
    IN  IF index = -1 THEN set
        ELSE [contents |-> Splice(set.contents, index),
              availableIndexes |-> IF indexesIndex # -1
                                   THEN Splice(set.availableIndexes, indexesIndex)
                                   ELSE set.availableIndexes]

\* do { ... } while (index !== -1 && removeAll)
RECURSIVE RemoveLoop(_, _, _)
RemoveLoop(set, toRemove, removeAll) ==
    IF ArrayIndexOf(set.contents, toRemove) # -1 /\ removeAll
    THEN RemoveLoop(RemoveFirst(set, toRemove), toRemove, removeAll)
    ELSE RemoveFirst(set, toRemove)

\* remove(toRemove, removeAll)
Remove(toRemove, removeAll) ==
    /\ LET set == RemoveLoop([contents |-> contents, availableIndexes |-> availableIndexes],
                             toRemove, removeAll)
       IN  /\ contents' = set.contents
           /\ availableIndexes' = set.availableIndexes
    /\ got' = Call("remove", FALSE, -1, toRemove, {}, FALSE)
    /\ UNCHANGED <<served, handlerVars, inputVars, containerVars, buttonVars, androidVars, voVars>>

\* get(): a refill when no position is available, then one available position,
\* picked at random, is taken; the element at it is returned
Get ==
    LET refills == Len(availableIndexes) = 0
        indexes == IF refills THEN Refill(availableIndexes, Len(contents))
                   ELSE availableIndexes
        positions == {i - 1 : i \in 1..Len(contents)}
        unreturned == positions \ served
        since == IF refills THEN {} ELSE served
    IN  IF Len(indexes) = 0
        THEN /\ got' = Call("get", refills, -1, "undefined", unreturned, FALSE)
             /\ availableIndexes' = indexes
             /\ served' = since
             /\ UNCHANGED <<contents, handlerVars, inputVars, containerVars, buttonVars, androidVars, voVars>>
        ELSE \E r \in 0..(Len(indexes) - 1) :
                LET index == indexes[r + 1]
                IN  /\ availableIndexes' = Splice(indexes, r)
                    /\ served' = since \cup {index}
                    /\ got' = Call("get", refills, index,
                                   IF index < Len(contents) THEN contents[index + 1]
                                   ELSE "undefined",
                                   unreturned, index \in since)
                    /\ UNCHANGED <<contents, handlerVars, inputVars, containerVars, buttonVars, androidVars, voVars>>

(***************************************************************************)
(* LogicCanvasButton's events.                                              *)
(***************************************************************************)
\* this.useOnce && this.usedPress, this.useOnce && this.usedRelease
UsedUpNever(useOnce, used) == FALSE

UsedUp(useOnce, used) == useOnce /\ used

\* "mousedown"
ButtonMouseDown ==
    LET acts == ~state.disabled /\ ~UsedUp(properties.useOnce, usedPress)
        fires == acts /\ properties.onPress # ""
    IN  /\ state' = [state EXCEPT !.down = TRUE]
        /\ triggers' = IF fires THEN Trigger(triggers, properties.onPress) ELSE triggers
        /\ usedPress' = IF fires THEN TRUE ELSE usedPress
        /\ movedOff' = FALSE
        /\ handled' = Handled("mousedown", IF fires THEN properties.onPress ELSE "", acts)
        /\ UNCHANGED <<properties, buttonMode, cancelled, usedRelease>>
        /\ UNCHANGED <<handlerVars, inputVars, containerVars, randomSetVars, androidVars, voVars>>

\* the event a pressup triggers: onCancel for a cancelled press, else onRelease
ReleasedAs(isCancelled, props) == IF isCancelled THEN props.onCancel ELSE props.onRelease

\* "pressup"
PressUp ==
    LET acts == ~state.disabled /\ ~UsedUp(properties.useOnce, usedRelease)
        name == ReleasedAs(cancelled, properties)
        fires == acts /\ name # ""
    IN  /\ triggers' = IF fires THEN Trigger(triggers, name) ELSE triggers
        /\ usedRelease' = IF fires THEN TRUE ELSE usedRelease
        /\ state' = [state EXCEPT !.down = FALSE]
        /\ cancelled' = FALSE
        /\ handled' = Handled("pressup", IF fires THEN name ELSE "", acts)
        /\ UNCHANGED <<properties, buttonMode, usedPress, movedOff>>
        /\ UNCHANGED <<handlerVars, inputVars, containerVars, randomSetVars, androidVars, voVars>>

\* "mouseover"
MouseOver ==
    /\ cancelled' = IF state.down THEN FALSE ELSE cancelled
    /\ movedOff' = FALSE
    /\ handled' = Handled("mouseover", "", FALSE)
    /\ UNCHANGED <<properties, state, buttonMode, usedPress, usedRelease, triggers>>
    /\ UNCHANGED <<handlerVars, inputVars, containerVars, randomSetVars, androidVars, voVars>>

\* "mouseout"
MouseOut ==
    /\ cancelled' = IF state.down THEN TRUE ELSE cancelled
    /\ movedOff' = IF state.down THEN TRUE ELSE movedOff
    /\ handled' = Handled("mouseout", "", FALSE)
    /\ UNCHANGED <<properties, state, buttonMode, usedPress, usedRelease, triggers>>
    /\ UNCHANGED <<handlerVars, inputVars, containerVars, randomSetVars, androidVars, voVars>>

\* "disable" and "enable"
SetDisabled(op, value) ==
    /\ state' = [state EXCEPT !.disabled = value]
    /\ buttonMode' = ~value
    /\ handled' = Handled(op, "", FALSE)
    /\ UNCHANGED <<properties, cancelled, usedPress, usedRelease, triggers, movedOff>>
    /\ UNCHANGED <<handlerVars, inputVars, containerVars, randomSetVars, androidVars, voVars>>

Disable == SetDisabled("disable", TRUE)

Enable == SetDisabled("enable", FALSE)

\* "toggle-disabled"
ToggleDisabled ==
    LET value == state.disabled
    IN  /\ buttonMode' = value
        /\ state' = [state EXCEPT !.disabled = ~value]
        /\ handled' = Handled("toggle-disabled", "", FALSE)
        /\ UNCHANGED <<properties, cancelled, usedPress, usedRelease, triggers, movedOff>>
        /\ UNCHANGED <<handlerVars, inputVars, containerVars, randomSetVars, androidVars, voVars>>

(***************************************************************************)
(* AudioVO's functions, events and methods.                                 *)
(***************************************************************************)
\* fromList[i].time || 0
EventTime(time) == IF Truthy(time) THEN time.n ELSE 0

sortByTime(a, b) == a.time - b.time

\* toList.sort(sortByTime): a permutation ordered by the comparator
SortByTime(list) ==
    {s \in {[i \in 1..Len(list) |-> list[p[i]]] : p \in Permutations(1..Len(list))} :
        \A i, j \in 1..Len(list) : i < j => sortByTime(s[i], s[j]) <= 0}

\* the events of fromList pushed on toList, each time moved by offset
Pushed(fromList, toList, offset) ==
    toList \o [i \in 1..Len(fromList) |->
                  TimedEvent(fromList[i].event, EventTime(fromList[i].time) + offset)]

\* variant of AddEvents: the list is not sorted after the push
AddEventsUnsorted(fromList, toList) == {Pushed(fromList, toList, 0)}

\* addEvents(fromList, toList): the lists toList may be afterwards
AddEvents(fromList, toList) ==
    IF Len(fromList) = 0 THEN {toList} ELSE SortByTime(Pushed(fromList, toList, 0))

\* offsetEvents(fromList, toList, player), offset being player.getElapsed()
OffsetEvents(fromList, toList, offset) ==
    IF Len(fromList) = 0 THEN {toList} ELSE SortByTime(Pushed(fromList, toList, offset))

\* the items of the player's list: a sound, or offsetEvents bound to the
\* events of the sound that follows it
SoundItem == [kind |-> "sound", events |-> <<>>]
CallbackItem(events) == [kind |-> "callback", events |-> events]

\* setupEventList(sounds, eventList, player)
RECURSIVE SetupEventList(_)
SetupEventList(sounds) ==
    IF Len(sounds) = 0 THEN <<>>
    ELSE (IF Len(Head(sounds).events) > 0
          THEN <<CallbackItem(Head(sounds).events), SoundItem>>
          ELSE <<SoundItem>>) \o SetupEventList(Tail(sounds))

\* the player comes to the next item of its list: the functions before the
\* next sound are called; lists are the event lists the queue may be by then
RECURSIVE RunCallbacks(_, _, _)
RunCallbacks(items, lists, elapsed) ==
    IF Len(items) = 0 \/ Head(items).kind = "sound" THEN lists
    ELSE RunCallbacks(Tail(items),
                      UNION {OffsetEvents(Head(items).events, l, elapsed) : l \in lists},
                      elapsed)

RECURSIVE SkipCallbacks(_)
SkipCallbacks(items) ==
    IF Len(items) = 0 \/ Head(items).kind = "sound" THEN items
    ELSE SkipCallbacks(Tail(items))

\* event.interruptable: Data.setUp gives an event no such property
Interruptable(event) == FALSE

\* how many events the loop of checkTimeEvents shifts off the list
RECURSIVE Due(_, _, _)
Due(events, finished, currentTime) ==
    IF Len(events) > 0 /\ (finished \/ Head(events).time <= currentTime)
    THEN 1 + Due(Tail(events), finished, currentTime)
    ELSE 0

\* checkTimeEvents(finished, completed): what is triggered, and what stays queued;
\* currentTime is Infinity when finished
CheckTimeEvents(events, finished, completed, currentTime) ==
    LET n == Due(events, finished, currentTime)
    IN  [triggered |-> SelectSeq(SubSeq(events, 1, n),
                                 LAMBDA e : ~finished \/ completed \/ ~Interruptable(e)),
         eventList |-> SubSeq(events, n + 1, Len(events))]

\* onComplete(completed, soundList)
OnComplete(completed, ownerDestroyed, events) ==
    IF ~ownerDestroyed
    THEN LET checked == CheckTimeEvents(events, TRUE, completed, 0)
         IN  [triggered |-> Append(checked.triggered, SequenceComplete),
              eventList |-> checked.eventList]
    ELSE [triggered |-> <<>>, eventList |-> events]

\* playSound(soundDefinition, value): the events of the definition and of the
\* value are queued on a new list; player.play stops what is playing, which
\* ends the old sequence on the old list, and comes to its first sound; the
\* new list then replaces the old one
PlaySound(soundDefinition, value) ==
    /\ ~voDestroyed
    /\ LET interrupts == voPlayer.playing
           stopped == IF interrupts THEN OnComplete(FALSE, FALSE, eventList)
                      ELSE [triggered |-> <<>>, eventList |-> eventList]
           soundList == SetupEventList(soundDefinition.sound)
       IN  \E defined \in AddEvents(soundDefinition.events, <<>>) :
           \E valued \in AddEvents(value.events, defined) :
           \E started \in RunCallbacks(soundList, {valued}, 0) :
               /\ eventList' = started
               /\ playingAudio' = TRUE
               /\ voPlayer' = [playing |-> TRUE,
                               voList |-> Tail(SkipCallbacks(soundList)),
                               elapsed |-> 0]
               /\ voLog' = <<>>
               /\ voLast' = VOEvent("playSound", stopped.triggered,
                                    voLog \o stopped.triggered, voPlayer.elapsed,
                                    eventList, interrupts, FALSE)
    /\ UNCHANGED voDestroyed
    /\ UNCHANGED <<handlerVars, inputVars, containerVars, randomSetVars, buttonVars,
                   androidVars>>

\* the sound being played goes on
Elapse ==
    /\ voPlayer.playing
    /\ voPlayer.elapsed < MaxElapsed
    /\ voPlayer' = [voPlayer EXCEPT !.elapsed = @ + 1]
    /\ voLast' = VOEvent("elapse", <<>>, voLog, voPlayer.elapsed, eventList, FALSE, FALSE)
    /\ UNCHANGED <<eventList, voDestroyed, playingAudio, voLog>>
    /\ UNCHANGED <<handlerVars, inputVars, containerVars, randomSetVars, buttonVars,
                   androidVars>>

\* the sound being played ends: the player comes to its next sound, or has
\* played its list and calls onComplete(true)
SoundFinished ==
    /\ voPlayer.playing
    /\ IF Len(voPlayer.voList) > 0
       THEN \E queued \in RunCallbacks(voPlayer.voList, {eventList}, voPlayer.elapsed) :
                /\ eventList' = queued
                /\ voPlayer' = [voPlayer EXCEPT !.voList = Tail(SkipCallbacks(@))]
                /\ voLast' = VOEvent("next-sound", <<>>, voLog, voPlayer.elapsed,
                                     eventList, FALSE, FALSE)
                /\ UNCHANGED <<playingAudio, voLog>>
       ELSE LET done == OnComplete(TRUE, FALSE, eventList)
            IN  /\ playingAudio' = FALSE
                /\ eventList' = done.eventList
                /\ voPlayer' = IdlePlayer
                /\ voLog' = voLog \o done.triggered
                /\ voLast' = VOEvent("complete", done.triggered, voLog \o done.triggered,
                                     voPlayer.elapsed, eventList, TRUE, FALSE)
    /\ UNCHANGED voDestroyed
    /\ UNCHANGED <<handlerVars, inputVars, containerVars, randomSetVars, buttonVars,
                   androidVars>>

\* "handle-render": this.paused is false from initialize on
VOHandleRender ==
    /\ LET checked == IF voDestroyed
                      THEN [triggered |-> <<>>, eventList |-> eventList]
                      ELSE CheckTimeEvents(eventList, FALSE, FALSE, voPlayer.elapsed)
       IN  /\ eventList' = checked.eventList
           /\ voLog' = voLog \o checked.triggered
           /\ voLast' = VOEvent("handle-render", checked.triggered,
                                voLog \o checked.triggered, voPlayer.elapsed,
                                eventList, FALSE, FALSE)
    /\ UNCHANGED <<voDestroyed, playingAudio, voPlayer>>
    /\ UNCHANGED <<handlerVars, inputVars, containerVars, randomSetVars, buttonVars,
                   androidVars>>

\* "stop-audio": player.stop() calls onComplete(false) when a list is playing
StopAudio ==
    /\ ~voDestroyed
    /\ LET stopped == IF voPlayer.playing THEN OnComplete(FALSE, FALSE, eventList)
                      ELSE [triggered |-> <<>>, eventList |-> eventList]
       IN  /\ eventList' = stopped.eventList
           /\ playingAudio' = IF voPlayer.playing THEN FALSE ELSE playingAudio
           /\ voLog' = voLog \o stopped.triggered
           /\ voLast' = VOEvent("stop-audio", stopped.triggered,
                                voLog \o stopped.triggered, voPlayer.elapsed,
                                eventList, voPlayer.playing, FALSE)
    /\ voPlayer' = IdlePlayer
    /\ UNCHANGED voDestroyed
    /\ UNCHANGED <<handlerVars, inputVars, containerVars, randomSetVars, buttonVars,
                   androidVars>>

\* destroy(), the owner being destroyed by then or not: the player is stopped if
\* audio is playing, the list is recycled and this.eventList is null
VODestroy(ownerDestroyed) ==
    /\ ~voDestroyed
    /\ LET stops == playingAudio /\ voPlayer.playing
           stopped == IF stops THEN OnComplete(FALSE, ownerDestroyed, eventList)
                      ELSE [triggered |-> <<>>, eventList |-> eventList]
       IN  /\ playingAudio' = IF stops THEN FALSE ELSE playingAudio
           /\ voPlayer' = IF playingAudio THEN IdlePlayer ELSE voPlayer
           /\ voLog' = voLog \o stopped.triggered
           /\ voLast' = VOEvent("destroy", stopped.triggered,
                                voLog \o stopped.triggered, voPlayer.elapsed,
                                eventList, stops, ownerDestroyed)
    /\ eventList' = <<>>
    /\ voDestroyed' = TRUE
    /\ UNCHANGED <<handlerVars, inputVars, containerVars, randomSetVars, buttonVars,
                   androidVars>>

\* one get() inside getMultiple: the sets that may result, the element returned
\* being pushed onto toReturn
GetInto(set, elements) ==
    LET refills == Len(set.availableIndexes) = 0
        indexes == IF refills THEN Refill(set.availableIndexes, Len(elements))
                   ELSE set.availableIndexes
        since == IF refills THEN {} ELSE set.served
    IN  IF Len(indexes) = 0
        THEN {[availableIndexes |-> indexes, served |-> since,
               toReturn |-> Append(set.toReturn, "undefined")]}
        ELSE {[availableIndexes |-> Splice(indexes, r),
               served |-> since \cup {indexes[r + 1]},
               toReturn |-> Append(set.toReturn,
                                   IF indexes[r + 1] < Len(elements)
                                   THEN elements[indexes[r + 1] + 1] ELSE "undefined")] :
                r \in 0..(Len(indexes) - 1)}

\* for (x = 0; x < numberToGet; x++) toReturn.push(this.get())
RECURSIVE GetLoop(_, _, _)
GetLoop(sets, elements, numberToGet) ==
    IF numberToGet = 0 THEN sets
    ELSE GetLoop(UNION {GetInto(set, elements) : set \in sets}, elements, numberToGet - 1)

\* getMultiple(numberToGet)
GetMultiple(numberToGet) ==
    /\ \E set \in GetLoop({[availableIndexes |-> availableIndexes, served |-> served,
                             toReturn |-> <<>>]}, contents, numberToGet) :
            /\ availableIndexes' = set.availableIndexes
            /\ served' = set.served
            /\ got' = [Call("getMultiple", FALSE, -1, "undefined", {}, FALSE) EXCEPT
                          !.toReturn = set.toReturn]
    /\ UNCHANGED <<contents, handlerVars, inputVars, containerVars, buttonVars, androidVars, voVars>>

(***************************************************************************)
(* The environment: the entities' own render components add display nodes   *)
(* to the stage, remove them and change their fields, and may set the       *)
(* stage's reorder flag when they do.                                       *)
(***************************************************************************)
FreeId(nodes) ==
    CHOOSE id \in 1..(Len(nodes) + 1) : \A i \in 1..Len(nodes) : nodes[i].id # id

\* the number of fields, other than the id, in which two nodes differ
FieldsChanged(a, b) ==
    Cardinality({f \in {"z", "hidden", "visible", "paused", "name", "bounds"} : a[f] # b[f]})

StageChange(h, nodes, flag) ==
    /\ children' = [children EXCEPT ![h] = nodes]
    /\ reorder' = [reorder EXCEPT ![h] = @ \/ flag]
    /\ last' = Event("stage-change", h, FALSE)
    /\ UNCHANGED <<components, hasChildren, ownerElement, canvasParent, domParent,
                   canvas, stage, loaded, handleChildren, listening, extraContent,
                   paused, camera, renderMessage, pending, frameDelta, renders,
                   lastCameraInfo, contributors,
                   devicePixelRatio, acceptInput, stageListeners, moveMouse,
                   originalEvent, xy, scale, down>>
    /\ UNCHANGED <<randomSetVars, buttonVars, androidVars, voVars>>
    /\ UNCHANGED containerVars

AddChild(h, node, flag, limit) ==
    /\ h \in Handlers
    /\ AllLoaded
    /\ pending = {}
    /\ stage[h]
    /\ Len(children[h]) < limit
    /\ StageChange(h, Append(children[h], [node EXCEPT !.id = FreeId(children[h])]), flag)

SetChild(h, i, node, flag) ==
    /\ h \in Handlers
    /\ AllLoaded
    /\ pending = {}
    /\ stage[h]
    /\ i \in 1..Len(children[h])
    /\ FieldsChanged(children[h][i], node) = 1
    /\ StageChange(h, [children[h] EXCEPT ![i] = [node EXCEPT !.id = children[h][i].id]], flag)

RemoveChild(h, i, flag) ==
    /\ h \in Handlers
    /\ AllLoaded
    /\ pending = {}
    /\ stage[h]
    /\ i \in 1..Len(children[h])
    /\ StageChange(h, [j \in 1..(Len(children[h]) - 1) |->
                          IF j < i THEN children[h][j] ELSE children[h][j + 1]], flag)

\* a child entity gains or loses its handler of 'handle-render'
SetHandlesRender(entity, handles) ==
    /\ AllLoaded
    /\ pending = {}
    /\ (entity \in handlesRender) # handles
    /\ handlesRender' = IF handles THEN handlesRender \cup {entity}
                        ELSE handlesRender \ {entity}
    /\ last' = [Event("child-change", 0, FALSE) EXCEPT !.entity = entity]
    /\ UNCHANGED <<components, hasChildren, ownerElement, canvasParent, domParent,
                   canvas, stage, loaded, handleChildren, listening, extraContent,
                   paused, camera, renderMessage, children, reorder, pending,
                   frameDelta, renders, lastCameraInfo, contributors,
                   devicePixelRatio, acceptInput, stageListeners, moveMouse,
                   originalEvent, xy, scale, down, renderList, dropped>>
    /\ UNCHANGED <<randomSetVars, buttonVars, androidVars, voVars>>

(***************************************************************************)
(* Inputs.                                                                  *)
(***************************************************************************)
\* transformed bounds: none, or a rectangle right of, below or inside the camera
\* rectangle {0, 0, 100, 100}; the other cameras make each of the four comparisons
\* the only false one, and make each hold with equality
BoundsInputs ==
    {NoBounds, Rect(150, 0, 10, 10), Rect(0, 150, 10, 10), Rect(0, 0, 10, 10)}

CameraInfoScaled(l, t, w, h, sx, sy) ==
    [some |-> TRUE, viewportLeft |-> l, viewportTop |-> t,
     viewportWidth |-> w, viewportHeight |-> h, scaleX |-> sx, scaleY |-> sy]
CameraInfo(l, t, w, h) == CameraInfoScaled(l, t, w, h, Ratio(1, 1), Ratio(1, 1))
CameraInputs ==
    {CameraInfo(0, 0, 100, 100), CameraInfo(60, 0, 100, 100),
     CameraInfo(50, 10, 100, 100), CameraInfo(10, 50, 100, 100)}

\* camera-update payloads with a scale: a half, one, and two on one axis
ScaledCameraInputs ==
    {CameraInfoScaled(0, 0, 100, 100, Ratio(1, 2), Ratio(1, 2)),
     CameraInfoScaled(0, 0, 100, 100, Ratio(1, 1), Ratio(1, 1)),
     CameraInfoScaled(60, 10, 100, 100, Ratio(1, 1), Ratio(2, 1))}

\* window.devicePixelRatio: not defined by the browser (dpr is then 1), or 2
PixelRatios == {Undefined, Num(2)}

\* definition.acceptInput: absent, click or touch with and without the movement
\* and camera flags, and the two flags without click or touch
AcceptInputs ==
    {NoAcceptInput,
     AcceptInput(TRUE, FALSE, FALSE, FALSE), AcceptInput(TRUE, FALSE, TRUE, FALSE),
     AcceptInput(TRUE, FALSE, FALSE, TRUE), AcceptInput(FALSE, TRUE, FALSE, TRUE),
     AcceptInput(FALSE, FALSE, TRUE, TRUE)}

\* native events: idle hover, a button held, a touch
NativeEvents ==
    {NativeEvent(Num(0), FALSE), NativeEvent(Num(1), FALSE), NativeEvent(Undefined, TRUE)}
\* two points, in the pixels of the stage
ScreenPoints == {[x |-> 100, y |-> 50], [x |-> 40, y |-> 20]}
\* raw stage events at these stage positions
PointerInputs ==
    {StageEvent(p.x, p.y, native) : p \in ScreenPoints, native \in NativeEvents}

\* the failures of a broadcast: none, or one child's handling fails and the
\* failure is contained by the container or leaves the broadcast
Faults ==
    {NoFault} \cup {[child |-> e, propagates |-> b] : e \in ChildEntities, b \in BOOLEAN}

\* pause-render payloads: none, a time of 0, a time of 3, a time of -2
PauseInputs ==
    {[some |-> FALSE, time |-> Undefined], [some |-> TRUE, time |-> Num(0)],
     [some |-> TRUE, time |-> Num(3)], [some |-> TRUE, time |-> Num(-2)]}

\* nodes for the pause pass: hidden or not, paused or not, always inside the camera
PauseNodes == {Node(0, 0, hid, TRUE, p, "", NoBounds) : hid \in BOOLEAN, p \in BOOLEAN}

\* a node for the steps of a tick: shown, not paused, always inside the camera
FrameNodes == {Node(0, 0, FALSE, TRUE, FALSE, "", NoBounds)}

\* nodes for the visibility pass: every hidden, visible, name and bounds
CullNodes ==
    {Node(0, 0, hid, vis, FALSE, name, b) :
        hid \in BOOLEAN, vis \in BOOLEAN, name \in {"", EntityManaged}, b \in BoundsInputs}

\* nodes for the sort: every depth key
SortNodes == {Node(0, z, FALSE, TRUE, FALSE, "", NoBounds) : z \in 0..MaxZ}

\* component lists: 1..MaxComponents components, at least one a render handler
RECURSIVE SeqsOf(_, _)
SeqsOf(S, n) ==
    IF n = 0 THEN {<<>>}
    ELSE {Append(s, x) : s \in SeqsOf(S, n - 1), x \in S}
ComponentLists ==
    {s \in UNION {SeqsOf(ComponentTypes, n) : n \in 1..MaxComponents} :
        \E i \in DOMAIN s : s[i] = TypeHandlerRenderCreateJS}

\* the handler's definition: autoClear true or not, canvasId absent or 'canvas'
Definitions == {Definition(clear, id) : clear \in BOOLEAN, id \in {"", "canvas"}}

\* sound definitions: no event of the definition or 'a' at 2, and either one
\* sound with no event or two sounds, the first with 'b' at 1 and the second
\* with 'c' with no time; and the events of the value: none, or 'v' at 1
RawEvent(event, time) == [event |-> event, time |-> time]
Sound(events) == [events |-> events]
SoundDefinitions ==
    {[events |-> events, sound |-> sound] :
        events \in {<<>>, <<RawEvent("a", Num(2))>>},
        sound \in {<<Sound(<<>>)>>,
                   <<Sound(<<RawEvent("b", Num(1))>>), Sound(<<RawEvent("c", Undefined)>>)>>}}
Values == {[events |-> <<>>], [events |-> <<RawEvent("v", Num(1))>>]}

\* the properties of a LogicCanvasButton
ButtonProperties ==
    {Properties(onPress, onRelease, onCancel, useOnce, disabled) :
        onPress \in {"", "pressed"}, onRelease \in {"", "released"},
        onCancel \in {"", "cancelled"}, useOnce \in BOOLEAN, disabled \in BOOLEAN}

\* the elements of a RandomSet, and the lists it is constructed from
SetElements == {"a", "b"}
\* how many elements a getMultiple call asks for: none, or two
NumbersToGet == {0, 2}
InitialContents == UNION {SeqsOf(SetElements, n) : n \in 0..(MaxSet - 1)}

(***************************************************************************)
(* Specifications.                                                          *)
(***************************************************************************)
\* one handler and its stage: the visibility pass against the camera
InitCull == InitWith(<<TypeHandlerRenderCreateJS>>, NullElement, TRUE)
NextCull ==
    \/ \E h \in Handlers : Load(h)
    \/ \E h \in Handlers : Tick(h, 1)
    \/ \E h \in Handlers, cameraInfo \in CameraInputs : CameraUpdate(h, cameraInfo)
    \/ \E h \in Handlers, node \in CullNodes : AddChild(h, node, FALSE, MaxCulled)
    \/ \E h \in Handlers, i \in 1..MaxCulled, node \in CullNodes :
           SetChild(h, i, node, FALSE)
SpecCull == InitCull /\ [][NextCull]_vars

\* one handler and its stage: depth keys and the reorder flag
InitSort == InitWith(<<TypeHandlerRenderCreateJS>>, NullElement, TRUE)
NextSort ==
    \/ \E h \in Handlers : Load(h)
    \/ \E h \in Handlers : Tick(h, 1)
    \/ \E h \in Handlers, node \in SortNodes, flag \in BOOLEAN : AddChild(h, node, flag, MaxChildren)
    \/ \E h \in Handlers, i \in 1..MaxChildren, node \in SortNodes, flag \in BOOLEAN :
           SetChild(h, i, node, flag)
    \/ \E h \in Handlers, i \in 1..MaxChildren, flag \in BOOLEAN : RemoveChild(h, i, flag)
SpecSort == InitSort /\ [][NextSort]_vars

\* one handler and its stage: the pause value, and destruction
InitPause == InitWith(<<TypeHandlerRenderCreateJS>>, NullElement, TRUE)
NextPause ==
    \/ \E h \in Handlers : Load(h)
    \/ \E h \in Handlers, delta \in Deltas : Tick(h, delta)
    \/ \E h \in Handlers, resp \in PauseInputs : PauseRender(h, resp)
    \/ \E h \in Handlers : UnpauseRender(h)
    \/ \E h \in Handlers, node \in PauseNodes : AddChild(h, node, FALSE, MaxCulled)
    \/ \E h \in Handlers, i \in 1..MaxCulled, node \in PauseNodes :
           SetChild(h, i, node, FALSE)
    \/ \E h \in Handlers : Destroy(h)
SpecPause == InitPause /\ [][NextPause]_vars

\* one handler, its pointer translator and its camera
InitInput ==
    \E accept \in AcceptInputs, ratio \in PixelRatios :
        Constructed(<<TypeHandlerRenderCreateJS>>, NullElement, TRUE, accept, ratio)
NextInput ==
    \/ \E h \in Handlers : Load(h)
    \/ \E h \in Handlers, cameraInfo \in ScaledCameraInputs : CameraUpdate(h, cameraInfo)
    \/ \E h \in Handlers, event \in PointerInputs : MouseDown(h, event)
    \/ \E h \in Handlers, event \in PointerInputs : MouseUp(h, event)
    \/ \E h \in Handlers, event \in PointerInputs : MouseMove(h, event)
    \/ \E h \in Handlers, sp \in ScreenPoints : GetWorldPointFromScreen(h, sp)
    \/ \E h \in Handlers : Destroy(h)
SpecInput == InitInput /\ [][NextInput]_vars

\* the owner's children and the broadcast to them, with one handler and with a
\* secondary handler before the primary
InitDispatch ==
    \E comps \in {<<TypeHandlerRenderCreateJS>>,
                   <<TypeHandlerRenderCreateJS, TypeHandlerRenderDom, TypeHandlerRenderCreateJS>>},
       element \in {NullElement, OwnerElement} :
        InitWith(comps, element, TRUE)
NextDispatch ==
    \/ \E h \in Handlers : Load(h)
    \/ \E h \in Handlers, fault \in Faults : TickWith(h, 1, fault)
    \/ \E h \in Handlers, entity \in ChildEntities : ChildEntityAdded(h, entity)
    \/ \E entity \in ChildEntities, handles \in BOOLEAN : SetHandlesRender(entity, handles)
SpecDispatch == InitDispatch /\ [][NextDispatch]_vars

\* pausing and resuming while the owner keeps delivering ticks: the handler
\* is not starved of ticks once it is loaded
InitUnpause == InitWith(<<TypeHandlerRenderCreateJS>>, NullElement, TRUE)
TickArrives == \E h \in Handlers, delta \in Deltas : Tick(h, delta)
NextUnpause ==
    \/ \E h \in Handlers : Load(h)
    \/ TickArrives
    \/ \E h \in Handlers, resp \in PauseInputs : PauseRender(h, resp)
    \/ \E h \in Handlers : UnpauseRender(h)
    \/ \E h \in Handlers, node \in PauseNodes : AddChild(h, node, FALSE, MaxCulled)
    \/ \E h \in Handlers, i \in 1..MaxCulled, node \in PauseNodes :
           SetChild(h, i, node, FALSE)
SpecUnpause == InitUnpause /\ [][NextUnpause]_vars /\ WF_vars(TickArrives)

\* what arrives during a broadcast: nothing, or an addition with a key of its own
Arrivals == {NoArrival, Arrival(Put(EmptyObj, "extra", 1))}

\* additions that arrive between ticks and inside the broadcast, with one
\* handler and with a secondary handler before the primary
InitAddition ==
    \E comps \in {<<TypeHandlerRenderCreateJS>>,
                   <<TypeHandlerRenderCreateJS, TypeHandlerRenderDom, TypeHandlerRenderCreateJS>>} :
        InitWith(comps, NullElement, TRUE)
NextAddition ==
    \/ \E h \in Handlers : Load(h)
    \/ \E h \in Handlers, arriving \in Arrivals : TickDuring(h, 1, NoFault, arriving)
    \/ \E h \in Handlers, entity \in ChildEntities : ChildEntityAdded(h, entity)
    \/ \E entity \in ChildEntities, handles \in BOOLEAN : SetHandlesRender(entity, handles)
SpecAddition == InitAddition /\ [][NextAddition]_vars

\* a RandomSet, beside an owner that is not used
InitRandomSet ==
    \E initial \in InitialContents :
        /\ ConstructedHandlers(<<TypeHandlerRenderCreateJS>>, NullElement, TRUE,
                               NoAcceptInput, Num(1))
        /\ ConstructedCanvas(FALSE, Definition(FALSE, ""))
        /\ AudioVOInitialize
        /\ RandomSetConstructor(initial)
        /\ LogicCanvasButtonConstructor(Properties("", "", "", FALSE, FALSE))
NextRandomSet ==
    \/ \E toAdd \in SetElements : Add(toAdd)
    \/ \E toRemove \in SetElements, removeAll \in BOOLEAN : Remove(toRemove, removeAll)
    \/ Get
    \/ \E numberToGet \in NumbersToGet : GetMultiple(numberToGet)
SpecRandomSet == InitRandomSet /\ [][NextRandomSet]_vars

\* a LogicCanvasButton, beside an owner that is not used
InitButton ==
    \E props \in ButtonProperties :
        /\ ConstructedHandlers(<<TypeHandlerRenderCreateJS>>, NullElement, TRUE,
                               NoAcceptInput, Num(1))
        /\ ConstructedCanvas(FALSE, Definition(FALSE, ""))
        /\ AudioVOInitialize
        /\ RandomSetConstructor(<<>>)
        /\ LogicCanvasButtonConstructor(props)
NextButton ==
    \/ ButtonMouseDown
    \/ PressUp
    \/ MouseOver
    \/ MouseOut
    \/ Disable
    \/ Enable
    \/ ToggleDisabled
SpecButton == InitButton /\ [][NextButton]_vars

\* one handler, primary or secondary, on an owner with and without children:
\* the steps of a tick under every pause value
InitFrame ==
    \E comps \in {<<TypeHandlerRenderCreateJS>>,
                   <<TypeHandlerRenderCreateJS, TypeHandlerRenderDom>>},
       kids \in BOOLEAN :
        InitWith(comps, NullElement, kids)
NextFrame ==
    \/ \E h \in Handlers : Load(h)
    \/ \E h \in Handlers, delta \in Deltas : Tick(h, delta)
    \/ \E h \in Handlers, resp \in PauseInputs : PauseRender(h, resp)
    \/ \E h \in Handlers : UnpauseRender(h)
    \/ \E h \in Handlers, node \in FrameNodes, flag \in BOOLEAN :
           AddChild(h, node, flag, MaxCulled)
SpecFrame == InitFrame /\ [][NextFrame]_vars

\* one handler in the affected Android browser and in another one, with and
\* without autoClear, its canvas with no id and with the id 'canvas'
InitAndroid ==
    \E isAndroid4 \in BOOLEAN, definition \in Definitions :
        /\ ConstructedHandlers(<<TypeHandlerRenderCreateJS>>, NullElement, TRUE,
                               NoAcceptInput, Num(1))
        /\ ConstructedCanvas(isAndroid4, definition)
        /\ AudioVOInitialize
        /\ RandomSetConstructor(<<>>)
        /\ LogicCanvasButtonConstructor(Properties("", "", "", FALSE, FALSE))
NextAndroid ==
    \/ \E h \in Handlers : Load(h)
    \/ \E h \in Handlers, delta \in Deltas : Tick(h, delta)
    \/ Timeout
    \/ \E h \in Handlers, resp \in PauseInputs : PauseRender(h, resp)
    \/ \E h \in Handlers : Destroy(h)
SpecAndroid == InitAndroid /\ [][NextAndroid]_vars

\* an AudioVO and its player, beside an owner that is not used
InitAudioVO ==
    /\ ConstructedHandlers(<<TypeHandlerRenderCreateJS>>, NullElement, TRUE,
                           NoAcceptInput, Num(1))
    /\ ConstructedCanvas(FALSE, Definition(FALSE, ""))
    /\ AudioVOInitialize
    /\ RandomSetConstructor(<<>>)
    /\ LogicCanvasButtonConstructor(Properties("", "", "", FALSE, FALSE))
NextAudioVO ==
    \/ \E soundDefinition \in SoundDefinitions, value \in Values :
           PlaySound(soundDefinition, value)
    \/ Elapse
    \/ SoundFinished
    \/ VOHandleRender
    \/ StopAudio
    \/ \E ownerDestroyed \in BOOLEAN : VODestroy(ownerDestroyed)
SpecAudioVO == InitAudioVO /\ [][NextAudioVO]_vars

\* several components on one owner: arbitration, extra content, destruction
Init ==
    \E comps \in ComponentLists, element \in {NullElement, OwnerElement}, kids \in BOOLEAN :
        InitWith(comps, element, kids)
Next ==
    \/ \E h \in Handlers : Load(h)
    \/ \E h \in Handlers, delta \in Deltas : Tick(h, delta)
    \/ \E h \in Handlers : Destroy(h)
Spec == Init /\ [][Next]_vars

(***************************************************************************)
(* Properties.                                                              *)
(***************************************************************************)
\* the last event was a tick of a handler whose stage was present
TickedWithStage == last.op = "tick" /\ last.hadStage
\* the stage children of the handler of the last event
Kids == children[last.h]
Ids(nodes) == [i \in 1..Len(nodes) |-> nodes[i].id]

\* C1: after a tick handled while the stage is present, every stage child whose
\* hidden flag is true has visible = false, whatever its bounds, its name and the
\* camera rectangle are.
C1_HiddenNeverVisible ==
    TickedWithStage => \A i \in 1..Len(Kids) : Kids[i].hidden => ~Kids[i].visible

\* a hidden, entity-managed child that was visible, inside the camera, is no longer
C1_Witness ==
    /\ TickedWithStage
    /\ \E i \in 1..Len(Kids) :
        /\ Kids[i].hidden /\ Kids[i].name = EntityManaged
        /\ Kids[i].bounds = Rect(0, 0, 10, 10)
        /\ camera[last.h].x = Num(0) /\ camera[last.h].y = Num(0)
        /\ last.before[i].visible /\ ~Kids[i].visible

\* the overlap of C2, on the numbers: false while the camera has no x or no y
C2_Overlap(b, c) ==
    /\ c.x.t = "number" /\ c.y.t = "number"
    /\ b.x + b.width >= c.x.n
    /\ b.x <= c.x.n + c.width.n
    /\ b.y + b.height >= c.y.n
    /\ b.y <= c.y.n + c.height.n

\* C2: after a tick with the stage present, every stage child that is not hidden
\* and not named 'entity-managed' is visible if it has no transformed bounds, and
\* otherwise exactly when its bounds overlap the camera rectangle, touching edges
\* counting as overlap.
C2_VisibleIffOverlap ==
    TickedWithStage =>
        \A i \in 1..Len(Kids) :
            (~Kids[i].hidden /\ Kids[i].name # EntityManaged) =>
                (Kids[i].visible <=>
                    (~Kids[i].bounds.some \/ C2_Overlap(Kids[i].bounds, camera[last.h])))

\* the scenario: bounds {150, 0, 10, 10}, not visible under the camera at x = 0, is
\* visible after the tick that follows the camera's move to x = 60
C2_Witness ==
    /\ TickedWithStage
    /\ lastCameraInfo[last.h] = CameraInfo(60, 0, 100, 100)
    /\ \E i \in 1..Len(Kids) :
        /\ ~Kids[i].hidden /\ Kids[i].name # EntityManaged
        /\ Kids[i].bounds = Rect(150, 0, 10, 10)
        /\ ~last.before[i].visible /\ Kids[i].visible

\* C3 as stated: the visibility pass of a tick never changes the visible flag of a
\* stage child whose name is 'entity-managed'.
C3_ManagedNeverToggled ==
    TickedWithStage =>
        \A i \in 1..Len(last.before) :
            last.before[i].name = EntityManaged =>
                last.culled[i].visible = last.before[i].visible

\* C3, amended: the visibility pass of a tick never changes the visible flag of a
\* stage child whose name is 'entity-managed' and whose hidden flag is false.
C3_ManagedNotHiddenNeverToggled ==
    TickedWithStage =>
        \A i \in 1..Len(last.before) :
            (last.before[i].name = EntityManaged /\ ~last.before[i].hidden) =>
                last.culled[i].visible = last.before[i].visible

\* an entity-managed child that is not hidden, is not visible and overlaps the
\* camera is still not visible after the pass
C3_Witness ==
    /\ TickedWithStage
    /\ \E i \in 1..Len(last.before) :
        /\ last.before[i].name = EntityManaged /\ ~last.before[i].hidden
        /\ last.before[i].bounds = Rect(0, 0, 10, 10)
        /\ last.cullCamera.x = Num(0) /\ last.cullCamera.y = Num(0)
        /\ ~last.before[i].visible /\ ~last.culled[i].visible

\* C4: the camera rectangle the visibility pass of a tick compares against is the
\* viewportLeft, viewportTop, viewportWidth and viewportHeight of the most recent
\* camera-update the handler received.
C4_CameraIsLastViewport ==
    (TickedWithStage /\ lastCameraInfo[last.h].some) =>
        /\ last.cullCamera.x = Num(lastCameraInfo[last.h].viewportLeft)
        /\ last.cullCamera.y = Num(lastCameraInfo[last.h].viewportTop)
        /\ last.cullCamera.width = Num(lastCameraInfo[last.h].viewportWidth)
        /\ last.cullCamera.height = Num(lastCameraInfo[last.h].viewportHeight)

\* a tick culls a child against the camera of a camera-update that moved it
C4_Witness ==
    /\ TickedWithStage
    /\ Len(last.before) > 0
    /\ lastCameraInfo[last.h] = CameraInfo(50, 10, 100, 100)
    /\ last.cullCamera.x = Num(50) /\ last.cullCamera.y = Num(10)

Position(nodes, id) == CHOOSE i \in 1..Len(nodes) : nodes[i].id = id

\* after a tick that sorts, the stage children are the same nodes, in ascending z
C6_SameNodesAscending ==
    (TickedWithStage /\ last.sorted) =>
        /\ Len(Kids) = Len(last.culled)
        /\ {Kids[i] : i \in 1..Len(Kids)} = {last.culled[i] : i \in 1..Len(last.culled)}
        /\ \A i, j \in 1..Len(Kids) : i < j => Kids[i].z <= Kids[j].z

\* C6: after a tick that sorts, the stage children are the same nodes as before,
\* ordered by ascending z, and any two children with equal z keep the relative
\* order they had before the sort.
C6_StableSort ==
    (TickedWithStage /\ last.sorted) =>
        /\ C6_SameNodesAscending
        /\ \A i, j \in 1..Len(last.culled) :
            (i < j /\ last.culled[i].z = last.culled[j].z) =>
                Position(Kids, last.culled[i].id) < Position(Kids, last.culled[j].id)

\* the last event was a tick of a handler that drives the children
PrimaryTicked == last.op = "tick" /\ handleChildren[last.h]

\* C7: at the end of every tick of a primary handler the render message holds no
\* extra-content key: every key merged into it from the pending extra content
\* before the 'handle-render' broadcast is absent from it after the broadcast, and
\* the pending extra content is empty.
C7_NoExtraContentLeft ==
    PrimaryTicked =>
        /\ last.merged \cap renderMessage[last.h].keys = {}
        /\ extraContent[last.h].obj.keys = {}

\* the children received the stage of another handler as extra content, and the
\* key is gone from the render message after the tick
C7_Witness ==
    /\ PrimaryTicked
    /\ last.broadcast
    /\ "stage" \in last.merged
    /\ last.message.val["stage"] # last.h
    /\ ~Has(renderMessage[last.h], "stage")

\* the owner tick that the last event belongs to has reached every handler
TickDelivered == last.op = "tick" /\ pending = {}
Maximum(S) == CHOOSE x \in S : \A y \in S : y <= x

\* C8: with several HandlerRenderCreateJS instances on one owner, once all have
\* handled 'load' exactly one has handleChildren = true, the one attached last, and
\* each owner tick the children receive 'handle-render' exactly once.
C8_OnePrimary ==
    (AllLoaded /\ Cardinality(Handlers) > 1) =>
        /\ {h \in Handlers : handleChildren[h]} = {Maximum(Handlers)}
        /\ (TickDelivered /\ hasChildren) => renders = 1

\* the handlers that have handled the owner tick the last event belongs to
Reached == Handlers \ pending

C10_TickAfterDestroyNoOp ==
    [][(last'.op = "tick" /\ ~stage[last'.h]) =>
          /\ ~last'.broadcast
          /\ ~last'.emitted
          /\ paused' = paused
          /\ renderMessage' = renderMessage
          /\ extraContent' = extraContent
          /\ last'.updates = 0
          /\ last'.telemetry = <<>>]_vars

\* C11: a camera-update delivered to a handler after destroy() raises no error and
\* changes no state of the handler: not its camera rectangle, not the stage
\* transform, not the translated pointer position.
C11_CameraUpdateAfterDestroyNoOp ==
    [][(last'.op = "camera-update" /\ ~stage[last'.h]) =>
          /\ ~last'.threw
          /\ camera' = camera
          /\ scale' = scale
          /\ xy' = xy]_vars

C13_ChildFaultIsolated ==
    (last.op = "tick" /\ last.broadcast /\ last.fault.child # 0) =>
        /\ ~last.threw
        /\ Elements(renderList) \cap handlesRender \subseteq last.delivered
        /\ last.merged \cap renderMessage[last.h].keys = {}
        /\ last.hadStage => last.updates = 1

\* C14: on a tick that finds a positive pause value, the value after the tick is
\* the value less the delta and never below 0; on the tick whose delta brings it to
\* 0 or below it is 0 and the handler acts as unpaused in that tick: every stage
\* child that is visible after the visibility pass is not paused after the tick.
C14_CountdownEndsAtZero ==
    (last.op = "tick" /\ JsGT(last.pauseFound, Num(0))) =>
        LET h == last.h
            remaining == last.pauseFound.n - renderMessage[h].val["delta"]
        IN  /\ paused[h].t = "number" /\ paused[h].n >= 0
            /\ remaining > 0 => paused[h].n = remaining
            /\ remaining <= 0 =>
                   /\ paused[h] = Num(0)
                   /\ last.hadStage =>
                          \A i \in 1..Len(Kids) : Kids[i].visible => ~Kids[i].paused

\* a countdown of 1 met a delta of 2: the value is 0 and a visible child that was
\* marked paused is unpaused by that tick
C14_Witness ==
    /\ last.op = "tick" /\ last.hadStage
    /\ last.pauseFound = Num(1) /\ renderMessage[last.h].val["delta"] = 2
    /\ paused[last.h] = Num(0)
    /\ \E i \in 1..Len(Kids) :
           last.before[i].paused /\ Kids[i].visible /\ ~Kids[i].paused

\* the device pixel ratio as a whole number: 1 when the browser defines none
PixelRatio == IF devicePixelRatio.t = "number" /\ devicePixelRatio.n # 0
              THEN devicePixelRatio.n ELSE 1
\* whether w is (pixel / ratio) / stageScale + origin, with the quotients
\* multiplied out; not a number when the origin is not defined
IsWorld(w, pixel, stageScale, origin) ==
    IF origin.t = "number"
    THEN /\ w.t = "number"
         /\ w.n * PixelRatio * stageScale.n =
                w.d * (pixel * stageScale.d + origin.n * PixelRatio * stageScale.n)
    ELSE w.t = "NaN"

\* C15: on a press the owner receives one 'mousedown' whose x and y are
\* (stageX / devicePixelRatio) / stage.scaleX + camera.x and
\* (stageY / devicePixelRatio) / stage.scaleY + camera.y; for device pixel
\* (100, 50), pixel ratio 2, stage scale 1 and camera origin (0, 0) the world
\* point is (50, 25).
C15_PressWorldPoint ==
    last.op = "mousedown" =>
        LET h == last.h
        IN  /\ Len(last.triggered) = 1
            /\ last.triggered[1].name = "mousedown"
            /\ last.triggered[1].event = last.arg.nativeEvent
            /\ IsWorld(last.triggered[1].x, last.arg.stageX, scale[h].scaleX, camera[h].x)
            /\ IsWorld(last.triggered[1].y, last.arg.stageY, scale[h].scaleY, camera[h].y)
            /\ (/\ last.arg.stageX = 100 /\ last.arg.stageY = 50
                /\ PixelRatio = 2
                /\ scale[h] = [scaleX |-> Ratio(1, 1), scaleY |-> Ratio(1, 1)]
                /\ camera[h].x = Num(0) /\ camera[h].y = Num(0))
               => (last.triggered[1].x = Ratio(50, 1) /\ last.triggered[1].y = Ratio(25, 1))

\* the scenario: a press at (100, 50) under pixel ratio 2, stage scale 1 and
\* camera origin (0, 0) is reported at (50, 25)
C15_Witness ==
    /\ last.op = "mousedown"
    /\ last.arg.stageX = 100 /\ last.arg.stageY = 50
    /\ devicePixelRatio = Num(2)
    /\ scale[last.h] = [scaleX |-> Ratio(1, 1), scaleY |-> Ratio(1, 1)]
    /\ camera[last.h].x = Num(0) /\ camera[last.h].y = Num(0)
    /\ last.triggered[1].x = Ratio(50, 1) /\ last.triggered[1].y = Ratio(25, 1)

\* C16: getWorldPointFromScreen(p) returns the world x and y that the pointer
\* translator computes for a pointer event at stage position p, for every p,
\* pixel ratio, stage scale and camera origin.
C16_WorldPointAgreesWithTranslator ==
    (last.op = "getWorldPointFromScreen" /\ ~last.threw) =>
        LET h == last.h
            event == StageEvent(last.arg.stageX, last.arg.stageY, last.arg.nativeEvent)
        IN  /\ last.returned = SetXY(event, devicePixelRatio, scale[h], camera[h])
            /\ IsWorld(last.returned.x, last.arg.stageX, scale[h].scaleX, camera[h].x)
            /\ IsWorld(last.returned.y, last.arg.stageY, scale[h].scaleY, camera[h].y)

\* a button or a touch is engaged in the raw event
Engaged(native) == (native.which.t = "number" /\ native.which.n # 0) \/ native.touches

\* C17: a stage pointer-move produces a 'mousemove' on the owner only if movement
\* tracking (acceptInput.movement) is enabled or a button or touch is engaged in
\* the raw event; a move during idle hover with movement tracking disabled
\* produces no owner event.
C17_MoveOnlyWhenTrackedOrEngaged ==
    last.op = "mousemove" =>
        /\ last.triggered # <<>> =>
               (acceptInput[last.h].movement \/ Engaged(last.arg.nativeEvent))
        /\ (~acceptInput[last.h].movement /\ ~Engaged(last.arg.nativeEvent)) =>
               last.triggered = <<>>

\* a move during idle hover, with movement tracking disabled, produced no owner
\* event, though the translator took its position
C17_Witness ==
    /\ last.op = "mousemove"
    /\ ~acceptInput[last.h].movement
    /\ last.arg.nativeEvent = NativeEvent(Num(0), FALSE)
    /\ last.triggered = <<>>
    /\ originalEvent[last.h] = last.arg

\* camera-coupled input is enabled: the pointer listeners are on the stage and
\* were set up with the camera flag
CameraCoupled(h) == stageListeners[h] /\ acceptInput[h].camera

\* C18: with camera-coupled input enabled, a camera-update emits a synthetic
\* 'mousemove' to the owner if and only if a pointer is down (a press with no
\* release after it); its coordinates are computed from the stage position of the
\* last pointer event and the camera state of that camera-update.  After a
\* release no camera-update emits a 'mousemove' until the next press.
C18_CameraMovesHeldPointer ==
    (last.op = "camera-update" /\ CameraCoupled(last.h)) =>
        LET h == last.h
        IN  /\ last.triggered # <<>> <=> down[h]
            /\ down[h] =>
                   /\ Len(last.triggered) = 1
                   /\ last.triggered[1].name = "mousemove"
                   /\ camera[h].x = Num(lastCameraInfo[h].viewportLeft)
                   /\ camera[h].y = Num(lastCameraInfo[h].viewportTop)
                   /\ scale[h].scaleX = Times(lastCameraInfo[h].scaleX, Ratio(PixelRatio, 1))
                   /\ scale[h].scaleY = Times(lastCameraInfo[h].scaleY, Ratio(PixelRatio, 1))
                   /\ IsWorld(last.triggered[1].x, originalEvent[h].stageX,
                              scale[h].scaleX, camera[h].x)
                   /\ IsWorld(last.triggered[1].y, originalEvent[h].stageY,
                              scale[h].scaleY, camera[h].y)

\* the camera moved to x = 60 while a pointer was down, after a move that
\* followed the press: the 'mousemove' is at the move's position under that camera
C18_Witness ==
    /\ last.op = "camera-update" /\ CameraCoupled(last.h)
    /\ down[last.h]
    /\ lastCameraInfo[last.h].viewportLeft = 60
    /\ Len(last.triggered) = 1
    /\ last.triggered[1].event # originalEvent[last.h].nativeEvent
    /\ last.triggered[1].x.t = "number"

\* C19: on every child-entity-added notification the handler sends that child one
\* 'handle-render-load' whose stage is the handler's own stage and whose
\* parentElement is the DOM parent of the handler's canvas, the element the canvas
\* was appended to.
C19_LoadCarriesStageAndCanvasParent ==
    last.op = "child-entity-added" =>
        /\ last.entity \in ChildEntities
        /\ last.load.stage = last.h
        /\ last.load.parentElement = domParent[last.h]

\* C20: RandomSet uses all its contents once before there are repeats: between
\* two refills get returns no position twice, and get refills only when every
\* position of the contents has been returned since the previous refill.
C20_AllUsedBeforeRepeats ==
    got.op = "get" =>
        /\ ~got.repeated
        /\ got.refilled => got.unreturned = {}

\* C21: a LogicCanvasButton with useOnce = true triggers its onPress event at
\* most once, and its onRelease and onCancel events together at most once,
\* whatever mousedown, pressup, mouseover, mouseout, enable, disable and
\* toggle-disabled events it receives.
C21_UseOnceTriggersOnce ==
    properties.useOnce =>
        /\ triggers["pressed"] <= 1
        /\ triggers["released"] + triggers["cancelled"] <= 1

\* a once-only button that has triggered its press and its release, and has
\* since received a mousedown and a pressup while enabled that triggered nothing
C21_Witness ==
    /\ properties.useOnce
    /\ triggers["pressed"] = 1
    /\ triggers["released"] + triggers["cancelled"] = 1
    /\ handled.op = "pressup" /\ ~handled.wasDisabled /\ handled.wasUsedRelease
    /\ handled.wasUsedPress /\ handled.triggered = ""

\* C22: on a pressup of an enabled button that ends a press, onCancel is
\* triggered, and onRelease is not, exactly when the press has moved off the
\* button and not back over it since the most recent mousedown; otherwise
\* onRelease is triggered and onCancel is not.
C22_CancelIffMovedOff ==
    (handled.op = "pressup" /\ ~handled.wasDisabled /\ handled.wasDown) =>
        handled.triggered = IF handled.wasMovedOff THEN "cancelled" ELSE "released"

\* the steps a tick of a handler is to run when it finds the reorder flag as given
StepsInOrder(dispatch, reorderFound) ==
    <<"pause">> \o dispatch \o <<"cull">>
    \o (IF reorderFound THEN <<"sort">> ELSE <<>>)
    \o <<"Render-Prep", "update", "Render">>

\* C23 as stated: every tick with the stage present runs, in this order and each
\* once, the pause countdown, the 'handle-render' broadcast (primary) or the
\* 'handle-render-addition' emission (secondary), the visibility and pause pass,
\* the conditional re-sort, the 'Render-Prep' telemetry, the stage update and
\* the 'Render' telemetry, whatever the pause value is.
C23_StepsInOrder ==
    TickedWithStage =>
        last.steps = StepsInOrder(IF handleChildren[last.h] THEN <<"handle-render">>
                                  ELSE <<"handle-render-addition">>,
                                  last.reorderFound)

\* C23, amended: the same, where a primary handler broadcasts 'handle-render'
\* only if its owner has triggerEventOnChildren; on an owner without it the
\* tick of a primary handler runs the other steps, in order, and no broadcast.
C23_StepsInOrderWhereBroadcast ==
    TickedWithStage =>
        last.steps = StepsInOrder(IF ~handleChildren[last.h] THEN <<"handle-render-addition">>
                                  ELSE IF hasChildren THEN <<"handle-render">>
                                  ELSE <<>>,
                                  last.reorderFound)

\* a primary handler paused for good, on an owner with children, has run a tick
\* that sorted
C23_Witness ==
    /\ TickedWithStage
    /\ hasChildren
    /\ last.pauseFound = Num(-1)
    /\ handleChildren[last.h] /\ last.reorderFound /\ Len(last.steps) = 7

\* C24: after a tick with the stage present, every stage child that is visible is
\* paused when the handler's pause value is a number other than zero and is not
\* paused when it is zero; a child that is not visible after the visibility pass
\* has the paused value it had before the tick.
C24_PauseReachesVisibleChildren ==
    TickedWithStage =>
        LET p == paused[last.h]
        IN  \A i \in 1..Len(Kids) :
                LET child == Kids[i]
                    was == last.before[Position(last.before, child.id)]
                IN  /\ (child.visible /\ p.t = "number" /\ p.n # 0) => child.paused
                    /\ (child.visible /\ p = Num(0)) => ~child.paused
                    /\ ~child.visible => child.paused = was.paused

\* a handler paused for good has run a tick over a hidden child that was not
\* paused and is not paused after it
C24_Witness ==
    /\ TickedWithStage
    /\ paused[last.h] = Num(-1)
    /\ \E i \in 1..Len(Kids) : ~Kids[i].visible /\ ~Kids[i].paused

\* C25: in every 'handle-render' broadcast of a primary handler the message the
\* children receive has the delta of the tick being handled and the stage of
\* that handler, also when secondary handlers have contributed extra content;
\* after the tick the reusable render message still holds its stage.
C25_MessageCarriesDeltaAndOwnStage ==
    (PrimaryTicked /\ last.broadcast) =>
        /\ Has(last.message, "delta") /\ last.message.val["delta"] = last.delta
        /\ Has(last.message, "stage") /\ last.message.val["stage"] = last.h
        /\ Has(renderMessage[last.h], "stage")
        /\ renderMessage[last.h].val["stage"] = last.h

\* C26 as stated: a secondary handler never broadcasts 'handle-render' to the
\* owner's children and never invokes the stage update; on a tick it only emits
\* 'handle-render-addition'.
C26_SecondaryOnlyEmits ==
    (last.op = "tick" /\ ~handleChildren[last.h]) =>
        /\ ~last.broadcast /\ last.delivered = {}
        /\ last.emitted
        /\ last.updates = 0

\* C26, amended: a secondary handler never broadcasts 'handle-render' to the
\* owner's children; on a tick it emits 'handle-render-addition' in place of the
\* broadcast, and while it has its stage it then commits that stage with one
\* stage update like a primary handler does.
C26_SecondaryEmitsAndCommitsOwnStage ==
    (last.op = "tick" /\ ~handleChildren[last.h]) =>
        /\ ~last.broadcast /\ last.delivered = {}
        /\ last.emitted
        /\ last.updates = IF last.hadStage THEN 1 ELSE 0
        /\ "handle-render" \notin Elements(last.steps)

\* a secondary handler on an owner with children has run a tick with its stage
C26_Witness ==
    /\ last.op = "tick" /\ ~handleChildren[last.h]
    /\ hasChildren /\ last.hadStage
    /\ last.emitted /\ last.updates = 1

\* C27: on the affected Android browser with auto-clear enabled each tick sets
\* the canvas opacity to 0.99 and schedules a callback, and once that callback
\* has run the opacity of the canvas is 1 again.
C27_OpacityRestored ==
    /\ (TickedWithStage /\ android4 /\ autoClear[last.h]) =>
           opacity[last.h] = 99 /\ Len(timeouts) > 0
    /\ last.op = "timeout" => opacity[last.h] = 100

\* C28: in every state reached by construction, pause-render with any payload,
\* unpause-render and ticks, the pause value of every handler is 0, -1 or a
\* positive countdown.
C28_PauseValueDomain ==
    \A h \in Handlers :
        /\ paused[h].t = "number"
        /\ paused[h].n = 0 \/ paused[h].n = -1 \/ paused[h].n > 0

\* the timed events among what was triggered
Timed(log) == SelectSeq(log, LAMBDA e : e # SequenceComplete)
\* a log in which the times never decrease and no event occurs twice
InOrderOnce(log) ==
    \A i, j \in 1..Len(log) : i < j => log[i].time <= log[j].time /\ log[i] # log[j]
\* the timed events are triggered in order, each at most once, and a
\* 'handle-render' triggers only those whose time the player has reached
TimedEventsInOrder ==
    /\ InOrderOnce(Timed(voLog))
    /\ InOrderOnce(Timed(voLast.sequence))
    /\ voLast.op = "handle-render" =>
           \A i \in 1..Len(voLast.triggered) : voLast.triggered[i].time <= voLast.elapsed
\* the last event triggered every event it found queued and then
\* 'sequence-complete', and left the queue it found empty
Flushed ==
    /\ Timed(voLast.triggered) = voLast.queued
    /\ Len(voLast.triggered) > 0
    /\ voLast.triggered[Len(voLast.triggered)] = SequenceComplete
    /\ voLast.op # "playSound" => eventList = <<>>

\* C29 as stated: the timed events of a playing sequence are triggered on the
\* owner in non-decreasing order of their time, each at most once, and on a
\* 'handle-render' only those whose time is at or before the player's elapsed
\* time; when the sequence completes or is interrupted every event still queued
\* is triggered and the queue is left empty before 'sequence-complete' is
\* triggered.
C29_QueueFlushedWhenSequenceEnds ==
    /\ TimedEventsInOrder
    /\ voLast.ended => Flushed

\* C29, amended: the same, where the events still queued are triggered, and
\* 'sequence-complete' after them, only if the owner is not destroyed when the
\* sequence ends; a sequence that destroy() interrupts on a destroyed owner
\* triggers nothing, and its queue is dropped.
C29_QueueFlushedUnlessOwnerDestroyed ==
    /\ TimedEventsInOrder
    /\ voLast.ended =>
           IF voLast.ownerDestroyed
           THEN voLast.triggered = <<>> /\ eventList = <<>>
           ELSE Flushed

\* a sequence has completed with two events still queued, after an earlier
\* event of it was triggered on a 'handle-render'
C29_Witness ==
    /\ voLast.op = "complete"
    /\ Len(voLast.queued) >= 2
    /\ Len(Timed(voLast.sequence)) > Len(voLast.queued)
    /\ eventList = <<>>

\* C30: in every state from construction on, also before the first
\* 'camera-update', the camera of a handler has a numeric x, y, width and
\* height, and a press that is handled yields numeric world coordinates.
C30_CameraDefinedFromConstruction ==
    /\ \A h \in Handlers :
        /\ camera[h].x.t = "number" /\ camera[h].y.t = "number"
        /\ camera[h].width.t = "number" /\ camera[h].height.t = "number"
    /\ (last.op = "mousedown" /\ Len(last.triggered) = 1) =>
           last.triggered[1].x.t = "number" /\ last.triggered[1].y.t = "number"

\* C31: every key the primary handler has absorbed from a
\* 'handle-render-addition', also one that arrived while its own broadcast was
\* in progress, is in the render message of a 'handle-render' broadcast by the
\* time a tick removes it from the pending extra content.
C31_NoExtraContentLost ==
    last.op = "tick" =>
        \A k \in last.removed : last.broadcast /\ k \in last.message.keys

\* the handler of SpecUnpause, and its stage child of a given id
Unpaused == paused[1] = Num(0)
HasKid(id) == \E i \in 1..Len(children[1]) : children[1][i].id = id
Kid(id) == children[1][Position(children[1], id)]
KidPaused(id) == HasKid(id) /\ Kid(id).paused

\* C32 as stated: after 'unpause-render', while ticks keep arriving and no
\* 'pause-render' is received, every stage child that is paused eventually has
\* paused = false, whether or not it is visible.
C32_EveryChildEventuallyResumed ==
    \A id \in 1..MaxCulled :
        (Unpaused /\ KidPaused(id)) ~> (~KidPaused(id) \/ ~Unpaused)

\* C32, amended: after 'unpause-render', while ticks keep arriving and no
\* 'pause-render' is received, every paused stage child eventually has
\* paused = false or is not visible; a child that a tick leaves not visible
\* keeps the paused value it had.
C32_VisibleChildEventuallyResumed ==
    /\ \A id \in 1..MaxCulled :
        (Unpaused /\ KidPaused(id)) ~>
            (~KidPaused(id) \/ ~Kid(id).visible \/ ~Unpaused)
    /\ [](TickedWithStage =>
            \A i \in 1..Len(Kids) :
                ~Kids[i].visible =>
                    Kids[i].paused = last.before[Position(last.before, Kids[i].id)].paused)

\* a tick of the resumed handler has found a paused child visible and has
\* resumed it
C32_Witness ==
    /\ TickedWithStage
    /\ last.h = 1 /\ Unpaused
    /\ \E i \in 1..Len(Kids) :
        /\ Kids[i].visible /\ ~Kids[i].paused
        /\ last.before[Position(last.before, Kids[i].id)].paused

\* C33: after any sequence of construction, add, remove, get and getMultiple
\* calls, availableIndexes holds no position twice and only positions of
\* contents, and a get on a set that is not empty, also one inside getMultiple,
\* returns an element that is in contents.
C33_AvailablePositionsValid ==
    /\ \A i, j \in 1..Len(availableIndexes) :
        i # j => availableIndexes[i] # availableIndexes[j]
    /\ \A i \in 1..Len(availableIndexes) :
        availableIndexes[i] >= 0 /\ availableIndexes[i] < Len(contents)
    /\ (got.op = "get" /\ Len(contents) > 0) => got.value \in Elements(contents)
    /\ (got.op = "getMultiple" /\ Len(contents) > 0) =>
           \A i \in 1..Len(got.toReturn) : got.toReturn[i] \in Elements(contents)
====
